---- MODULE Spec2Model ----
(***************************************************************************)
(* Model of the ear-trainer quiz engine (pentatonicway/ear-trainer).       *)
(*                                                                         *)
(* The session state machine is the React hook useQuizSession: its state   *)
(* object, its four public operations and the microtasks they defer        *)
(* (Promise.resolve().then(...)) for audio playback and for the            *)
(* onSessionComplete callback.  Around it: the pure functions of           *)
(* phaseProgression.js and streakUtils.js, and the host code that persists *)
(* the learner's phase (SummaryScreen's persist, SettingsScreen's reset).   *)
(*                                                                         *)
(* Conventions                                                             *)
(*  - a JS value that may be null/undefined is a sequence of length <= 1:  *)
(*    <<>> is null/undefined, <<v>> is the value v;                        *)
(*  - currentIndex is 0-based as in the code; questions[i] of the code is  *)
(*    At(questions, i);                                                    *)
(*  - a frequency f (Hz) is represented by its distance from A4 in         *)
(*    semitones, 12*log2(f/440): the map is a strictly increasing          *)
(*    bijection, so equality and order of frequencies are preserved and    *)
(*    rootHz * 2^(n/12) becomes rootHz + n;                                *)
(*  - an accuracy (0..1) is represented in percent (0..100).               *)
(***************************************************************************)
EXTENDS Integers, Sequences, FiniteSets, TLC

VARIABLES
    state,        \* the hook's React state object (INITIAL_STATE fields)
    microtasks,   \* FIFO of callbacks deferred with Promise.resolve().then
    audioCalls,   \* playInterval(rootHz, intervalHz) calls made by the last step
    doneCalls,    \* onSessionComplete(payload) calls made by the last step
    completions,  \* history: onSessionComplete invocations for the current run
    attempts,     \* history: ids submitted on the current question so far
    lastCall,     \* history: the operation that made the last step
    submitCalls,  \* history: submitAnswer calls of the current run (SpecFirstTry)
    pure,         \* the last call of a pure function: name, arguments, result
    host,         \* the persistent store and the host code working on it
    summary,      \* SummaryScreen: its refs and state, the sessions store, its requests
    engine        \* audioEngine.js: the module's state, its init() calls, its samplers

vars == <<state, microtasks, audioCalls, doneCalls, completions, attempts, lastCall,
          submitCalls, pure, host, summary, engine>>

\* the variables of the hook
hookVars == <<state, microtasks, audioCalls, doneCalls, completions, attempts, lastCall>>

----------------------------------------------------------------------------
(* Bounds of the model *)

\* config.sessionLength of the modelled hook instance
SessionLength == 2

\* host calls made in one tick, i.e. before the microtask queue drains
MaxBatch == 1

\* cap on currentIndex beyond the end of the question list (advanceToNext
\* keeps incrementing it after completion)
MaxOvershoot == 1

\* longest list of recent sessions handed to checkPhaseUnlock
MaxSessions == 4

\* longest customActiveIds array handed to getActiveIntervalsForPhase
MaxCustomIds == 3

\* longest array of session dates handed to calculateStreak
MaxStamps == 3

\* session dates fall on the UTC days 0..MaxDay after the epoch
MaxDay == 4

\* the newest sessions the modelled store keeps (getRecentSessions reads 3)
MaxStored == 3

\* longest activeIntervalIds array handed to buildWeightedPool and to the
\* session generators
MaxActiveIds == 3

\* largest whole count handed to the session generators
MaxCount == 2

\* callbacks that may be pending when the host makes a further call in the
\* same task (SpecBatch)
MaxPending == 2

\* invocations of SummaryScreen's persist effect (2: React Strict Mode)
MaxEffectRuns == 2

\* clicks on the storage-full modal's "Clear History" button
MaxClicks == 2

\* calls of SettingsScreen's handleIntervalToggle
MaxToggles == 3

\* audioEngine.init() calls
MaxInits == 2

\* calls of the audio engine's play functions
MaxPlays == 2

----------------------------------------------------------------------------
(* Generic helpers *)

Range(s) == {s[i] : i \in DOMAIN s}

\* arr[i] of JavaScript, 0-based; undefined is <<>>
At(arr, i) == IF (i + 1) \in DOMAIN arr THEN <<arr[i + 1]>> ELSE <<>>

----------------------------------------------------------------------------
(* intervals.js *)

INTERVALS == <<
    [id |-> "root",           semitones |-> 0,  phase |-> 1],
    [id |-> "perfect_fourth", semitones |-> 5,  phase |-> 1],
    [id |-> "perfect_fifth",  semitones |-> 7,  phase |-> 1],
    [id |-> "tritone",        semitones |-> 6,  phase |-> 2],
    [id |-> "major_third",    semitones |-> 4,  phase |-> 3],
    [id |-> "minor_third",    semitones |-> 3,  phase |-> 4],
    [id |-> "major_sixth",    semitones |-> 9,  phase |-> 5],
    [id |-> "minor_sixth",    semitones |-> 8,  phase |-> 6],
    [id |-> "major_second",   semitones |-> 2,  phase |-> 7],
    [id |-> "minor_second",   semitones |-> 1,  phase |-> 8],
    [id |-> "major_seventh",  semitones |-> 11, phase |-> 9],
    [id |-> "minor_seventh",  semitones |-> 10, phase |-> 10] >>

\* INTERVALS.find(interval => interval.id === id); undefined is <<>>
getIntervalById(id) ==
    LET hits == {i \in DOMAIN INTERVALS : INTERVALS[i].id = id}
    IN  IF hits = {} THEN <<>>
        ELSE <<INTERVALS[CHOOSE i \in hits : \A j \in hits : i <= j]>>

\* mutant of getIntervalsForPhase: only the intervals the phase introduces
getIntervalsForPhase_OwnPhase(phase) ==
    SelectSeq(INTERVALS, LAMBDA interval : interval.phase = phase)

\* INTERVALS.filter(interval => interval.phase <= phase)
getIntervalsForPhase(phase) ==
    SelectSeq(INTERVALS, LAMBDA interval : interval.phase <= phase)

----------------------------------------------------------------------------
(* noteUtils.js *)

\* the octave-4 entries of SEMITONES_FROM_A4, keyed by `${keyName}4`
SEMITONES_FROM_A4 ==
    [k \in {"C4", "C#4", "D4", "D#4", "E4", "F4", "F#4", "G4", "G#4", "A4", "A#4", "B4"} |->
        CASE k = "C4"  -> -9  [] k = "C#4" -> -8  [] k = "D4"  -> -7
          [] k = "D#4" -> -6  [] k = "E4"  -> -5  [] k = "F4"  -> -4
          [] k = "F#4" -> -3  [] k = "G4"  -> -2  [] k = "G#4" -> -1
          [] k = "A4"  -> 0   [] k = "A#4" -> 1   [] k = "B4"  -> 2]

\* NOTE_FREQUENCIES: 440 * 2^(offset/12) for each note, in whole Hz
\* (rounded down)
NOTE_FREQUENCIES ==
    [k \in DOMAIN SEMITONES_FROM_A4 |->
        CASE k = "C4"  -> 261  [] k = "C#4" -> 277  [] k = "D4"  -> 293
          [] k = "D#4" -> 311  [] k = "E4"  -> 329  [] k = "F4"  -> 349
          [] k = "F#4" -> 369  [] k = "G4"  -> 391  [] k = "G#4" -> 415
          [] k = "A4"  -> 440  [] k = "A#4" -> 466  [] k = "B4"  -> 493]

\* `${keyName}4` for the key names the model uses
Octave4(keyName) ==
    CASE keyName = "C" -> "C4" [] keyName = "D" -> "D4" [] keyName = "E" -> "E4"
      [] keyName = "F" -> "F4" [] keyName = "G" -> "G4" [] keyName = "A" -> "A4"
      [] keyName = "B" -> "B4"
      [] keyName = "C#" -> "C#4" [] keyName = "D#" -> "D#4" [] keyName = "F#" -> "F#4"
      [] keyName = "G#" -> "G#4" [] keyName = "A#" -> "A#4"
      [] OTHER -> keyName

\* NOTE_FREQUENCIES[`${keyName}4`]; <<>> where the code throws "Unknown key"
getRootFrequency(keyName) ==
    IF Octave4(keyName) \in DOMAIN SEMITONES_FROM_A4
    THEN <<SEMITONES_FROM_A4[Octave4(keyName)]>>
    ELSE <<>>

\* mutant of getIntervalFrequency: the offset is taken downward
getIntervalFrequency_Downward(rootHz, semitones) ==
    IF semitones < 0 THEN <<>> ELSE <<rootHz - semitones>>

\* rootHz * 2^(semitones/12); <<>> where the code throws (semitones < 0)
getIntervalFrequency(rootHz, semitones) ==
    IF semitones < 0 THEN <<>> ELSE <<rootHz + semitones>>

----------------------------------------------------------------------------
(* adaptiveWeighting.js *)

WEIGHT_NO_DATA    == 3
WEIGHT_STRUGGLING == 5
WEIGHT_NEEDS_WORK == 3
WEIGHT_STRONG     == 1

\* mutant of getWeight: the boundaries belong to the bracket below them
getWeight_BoundaryBelow(accuracy) ==
    IF accuracy = <<>> THEN WEIGHT_NO_DATA
    ELSE IF accuracy[1] <= 50 THEN WEIGHT_STRUGGLING
    ELSE IF accuracy[1] <= 80 THEN WEIGHT_NEEDS_WORK
    ELSE WEIGHT_STRONG

\* accuracy is <<>> (null/undefined) or <<percent>>
getWeight(accuracy) ==
    IF accuracy = <<>> THEN WEIGHT_NO_DATA
    ELSE IF accuracy[1] < 50 THEN WEIGHT_STRUGGLING
    ELSE IF accuracy[1] < 80 THEN WEIGHT_NEEDS_WORK
    ELSE WEIGHT_STRONG

\* new Map(stats.map(s => [s.intervalId, s.accuracy])): a later entry for the
\* same id overwrites an earlier one
StatMapGet(intervalStats, id) ==
    LET hits == {i \in DOMAIN intervalStats : intervalStats[i].intervalId = id}
    IN  IF hits = {} THEN <<>>
        ELSE intervalStats[CHOOSE i \in hits : \A j \in hits : j <= i].accuracy

\* mutant of Repeat: the loop stops one push early
Repeat_OneLess(x, n) == [i \in 1..(n - 1) |-> x]

\* for (let i = 0; i < weight; i++) pool.push(id)
Repeat(x, n) == [i \in 1..n |-> x]

RECURSIVE buildWeightedPool(_, _)
buildWeightedPool(activeIntervalIds, intervalStats) ==
    IF activeIntervalIds = <<>> THEN <<>>
    ELSE LET n  == Len(activeIntervalIds)
             id == activeIntervalIds[n]
         IN  buildWeightedPool(SubSeq(activeIntervalIds, 1, n - 1), intervalStats)
                \o Repeat(id, getWeight(StatMapGet(intervalStats, id)))

----------------------------------------------------------------------------
(* questionGenerator.js *)

\* The question built from a picked key and interval id (lines 35-43 and
\* 85-92); <<>> where the code throws (unknown id, unknown key).
MakeQuestion(key, intervalId) ==
    LET interval == getIntervalById(intervalId)
        rootHz   == getRootFrequency(key)
    IN  IF interval = <<>> \/ rootHz = <<>> THEN <<>>
        ELSE LET intervalHz == getIntervalFrequency(rootHz[1], interval[1].semitones)
             IN  IF intervalHz = <<>> THEN <<>>
                 ELSE <<[key |-> key, intervalId |-> intervalId,
                         rootHz |-> rootHz[1], intervalHz |-> intervalHz[1]]>>

\* mutant of generateQuestion: the interval is picked from the whole catalog
generateQuestion_FromCatalog(activeIntervalIds, availableKeys) ==
    {MakeQuestion(k, INTERVALS[i].id)[1] :
        <<k, i>> \in {p \in Range(availableKeys) \X DOMAIN INTERVALS :
                        MakeQuestion(p[1], INTERVALS[p[2]].id) # <<>>}}

\* The questions generateQuestion can return: one per outcome of the two
\* random picks that does not throw.
generateQuestion(activeIntervalIds, availableKeys) ==
    {MakeQuestion(k, i)[1] :
        <<k, i>> \in {p \in Range(availableKeys) \X Range(activeIntervalIds) :
                        MakeQuestion(p[1], p[2]) # <<>>}}

\* mutant of generateSession: a count of 0 is let through
generateSession_ZeroAllowed(activeIntervalIds, availableKeys, count) ==
    IF count < 0 THEN {}
    ELSE [1..count -> generateQuestion(activeIntervalIds, availableKeys)]

\* The sessions generateSession can return (none when it throws).
generateSession(activeIntervalIds, availableKeys, count) ==
    IF count < 1 THEN {}
    ELSE [1..count -> generateQuestion(activeIntervalIds, availableKeys)]

\* The sessions generateAdaptiveSession can return: the interval id of each
\* slot is drawn from the weighted pool, the key uniformly.
generateAdaptiveSession(activeIntervalIds, availableKeys, count, intervalStats) ==
    IF count < 1 THEN {}
    ELSE [1..count ->
            generateQuestion(buildWeightedPool(activeIntervalIds, intervalStats),
                             availableKeys)]

----------------------------------------------------------------------------
(* The hook's config (useQuizSession.test.js fixtures) *)

intervalIds   == <<"root", "perfect_fifth", "perfect_fourth">>
keys          == <<"C">>
sessionLength == SessionLength

\* the values of config.intervalStats the host may pass
IntervalStatsChoices ==
    { <<>>,
      <<[intervalId |-> "root",          accuracy |-> <<90>>],
        [intervalId |-> "perfect_fifth", accuracy |-> <<40>>]>> }

----------------------------------------------------------------------------
(* useQuizSession.js *)

RECURSIVE buildBreakdown(_)
\* results.reduce(...): intervalId -> {correct, total}
buildBreakdown(results) ==
    IF results = <<>> THEN <<>>
    ELSE LET n    == Len(results)
             acc  == buildBreakdown(SubSeq(results, 1, n - 1))
             r    == results[n]
             old  == IF r.intervalId \in DOMAIN acc THEN acc[r.intervalId]
                     ELSE [correct |-> 0, total |-> 0]
             new  == [correct |-> old.correct + (IF r.correct THEN 1 ELSE 0),
                      total   |-> old.total + 1]
         IN  [id \in (DOMAIN acc) \cup {r.intervalId} |->
                 IF id = r.intervalId THEN new ELSE acc[id]]

INITIAL_STATE ==
    [questions      |-> <<>>,
     currentIndex   |-> 0,
     phase          |-> "idle",
     selectedAnswer |-> <<>>,
     isCorrect      |-> <<>>,
     retryUsed      |-> FALSE,
     sessionResults |-> <<>>]

\* mutant of play: the two frequencies change places
play_Swapped(question) ==
    IF question # <<>>
    THEN <<[rootHz |-> question[1].intervalHz, intervalHz |-> question[1].rootHz]>>
    ELSE <<>>

\* play(question): the playInterval calls it makes (audioRef.current is set)
play(question) ==
    IF question # <<>>
    THEN <<[rootHz |-> question[1].rootHz, intervalHz |-> question[1].intervalHz]>>
    ELSE <<>>

\* a deferred () => play(question)
PlayTask(question) ==
    [kind |-> "play", question |-> question, payload |-> <<>>, stale |-> FALSE]

\* a deferred () => onDoneRef.current?.(payload)
DoneTask(payload) ==
    [kind |-> "done", question |-> <<>>, payload |-> <<payload>>, stale |-> FALSE]

\* mutant of CountCorrect: every result counts
CountCorrect_CountsAll(results) == Len(results)

\* results.filter(r => r.correct).length
CountCorrect(results) == Cardinality({i \in DOMAIN results : results[i].correct})

\* the payload handed to onSessionComplete (lines 579-587)
CompletionPayload(questions, newResults) ==
    [questions         |-> questions,
     results           |-> newResults,
     score             |-> CountCorrect(newResults),
     total             |-> Len(newResults),
     intervalBreakdown |-> buildBreakdown(newResults)]

\* mutant of SessionOver: > in place of >=
SessionOver_OneLate(nextIndex, questions) == nextIndex > Len(questions)

\* mutant of SessionOver: === in place of >=
SessionOver_ExactlyAtEnd(nextIndex, questions) == nextIndex = Len(questions)

\* computeAdvance's test for "this was the last question" (line 577)
SessionOver(nextIndex, questions) == nextIndex >= Len(questions)

\* mutant of completeBranch: currentIndex is not moved past the last question
completeBranch_IndexKept(prev, newResults, nextIndex) ==
    [state |-> [prev EXCEPT !.phase          = "complete",
                            !.sessionResults = newResults,
                            !.selectedAnswer = <<>>,
                            !.isCorrect      = <<>>,
                            !.retryUsed      = FALSE],
     tasks |-> <<DoneTask(CompletionPayload(prev.questions, newResults))>>]

\* computeAdvance, terminal branch (lines 577-599): the callback is deferred
\* to a microtask and the state becomes complete
completeBranch(prev, newResults, nextIndex) ==
    [state |-> [prev EXCEPT !.currentIndex   = nextIndex,
                            !.phase          = "complete",
                            !.sessionResults = newResults,
                            !.selectedAnswer = <<>>,
                            !.isCorrect      = <<>>,
                            !.retryUsed      = FALSE],
     tasks |-> <<DoneTask(CompletionPayload(prev.questions, newResults))>>]

\* mutant of nextQuestionBranch: the deferred playback is of the question
\* just left
nextQuestionBranch_PlaysOld(prev, newResults, nextIndex) ==
    [state |-> [prev EXCEPT !.currentIndex   = nextIndex,
                            !.phase          = "answering",
                            !.sessionResults = newResults,
                            !.selectedAnswer = <<>>,
                            !.isCorrect      = <<>>,
                            !.retryUsed      = FALSE],
     tasks |-> <<PlayTask(At(prev.questions, prev.currentIndex))>>]

\* mutant of nextQuestionBranch: retryUsed is carried over to the next question
nextQuestionBranch_RetryKept(prev, newResults, nextIndex) ==
    [state |-> [prev EXCEPT !.currentIndex   = nextIndex,
                            !.phase          = "answering",
                            !.sessionResults = newResults,
                            !.selectedAnswer = <<>>,
                            !.isCorrect      = <<>>],
     tasks |-> <<PlayTask(At(prev.questions, nextIndex))>>]

\* computeAdvance, non-terminal branch (lines 601-614): playback of the next
\* question is deferred to a microtask
nextQuestionBranch(prev, newResults, nextIndex) ==
    [state |-> [prev EXCEPT !.currentIndex   = nextIndex,
                            !.phase          = "answering",
                            !.sessionResults = newResults,
                            !.selectedAnswer = <<>>,
                            !.isCorrect      = <<>>,
                            !.retryUsed      = FALSE],
     tasks |-> <<PlayTask(At(prev.questions, nextIndex))>>]

\* computeAdvance(prev, newResults): the next state and the microtask queued
computeAdvance(prev, newResults) ==
    LET nextIndex == prev.currentIndex + 1
    IN  IF SessionOver(nextIndex, prev.questions)
        THEN completeBranch(prev, newResults, nextIndex)
        ELSE nextQuestionBranch(prev, newResults, nextIndex)

\* mutant of correctBranch: usedRetry is recorded as false
correctBranch_RetryForgotten(prev, currentQuestion) ==
    computeAdvance(prev,
        Append(prev.sessionResults,
               [intervalId |-> currentQuestion.intervalId,
                correct    |-> TRUE,
                usedRetry  |-> FALSE]))

\* submitAnswer, correct answer (lines 648-654)
correctBranch(prev, currentQuestion) ==
    computeAdvance(prev,
        Append(prev.sessionResults,
               [intervalId |-> currentQuestion.intervalId,
                correct    |-> TRUE,
                usedRetry  |-> prev.retryUsed]))

\* mutant of firstWrongBranch: the miss is recorded at once, no retry
firstWrongBranch_NoRetry(prev, answeredIntervalId, currentQuestion) ==
    computeAdvance(prev,
        Append(prev.sessionResults,
               [intervalId |-> currentQuestion.intervalId,
                correct    |-> FALSE,
                usedRetry  |-> FALSE]))

\* submitAnswer, wrong answer on the first attempt (lines 657-666)
firstWrongBranch(prev, answeredIntervalId, currentQuestion) ==
    [state |-> [prev EXCEPT !.selectedAnswer = <<answeredIntervalId>>,
                            !.isCorrect      = <<FALSE>>,
                            !.phase          = "feedback",
                            !.retryUsed      = TRUE],
     tasks |-> <<PlayTask(<<currentQuestion>>)>>]

\* mutant of secondWrongBranch: the question is asked again, without limit
secondWrongBranch_AsksAgain(prev, currentQuestion) ==
    [state |-> prev, tasks |-> <<PlayTask(<<currentQuestion>>)>>]

\* submitAnswer, wrong answer with the retry already used (lines 669-673)
secondWrongBranch(prev, currentQuestion) ==
    computeAdvance(prev,
        Append(prev.sessionResults,
               [intervalId |-> currentQuestion.intervalId,
                correct    |-> FALSE,
                usedRetry  |-> TRUE]))

\* the updater of submitAnswer(answeredIntervalId)
submitAnswerUpdater(prev, answeredIntervalId) ==
    LET currentQuestion == At(prev.questions, prev.currentIndex)
    IN  IF currentQuestion = <<>> THEN [state |-> prev, tasks |-> <<>>]
        ELSE IF answeredIntervalId = currentQuestion[1].intervalId
        THEN correctBranch(prev, currentQuestion[1])
        ELSE IF ~prev.retryUsed
        THEN firstWrongBranch(prev, answeredIntervalId, currentQuestion[1])
        ELSE secondWrongBranch(prev, currentQuestion[1])

\* the updater of advanceToNext()
advanceToNextUpdater(prev) == computeAdvance(prev, prev.sessionResults)

\* mutant of startSessionStates: the phase is not set
startSessionStates_NotAnswering(intervalStats) ==
    {[INITIAL_STATE EXCEPT !.questions = questions] :
        questions \in generateSession(intervalIds, keys, sessionLength)}

\* startSession(): the states it can set
startSessionStates(intervalStats) ==
    LET hasStats  == Len(intervalStats) > 0
        sessions  == IF hasStats
                     THEN generateAdaptiveSession(intervalIds, keys, sessionLength, intervalStats)
                     ELSE generateSession(intervalIds, keys, sessionLength)
    IN  {[INITIAL_STATE EXCEPT !.questions = questions, !.phase = "answering"] :
            questions \in sessions}

\* whether one draw of generateQuestion (or of a slot of
\* generateAdaptiveSession) can throw: an empty pool, or a pick that names an
\* unknown interval id or key
generateQuestionMayThrow(activeIntervalIds, availableKeys) ==
    \/ activeIntervalIds = <<>>
    \/ availableKeys = <<>>
    \/ \E k \in Range(availableKeys), i \in Range(activeIntervalIds) :
            MakeQuestion(k, i) = <<>>

\* A JavaScript number handed in as count is [whole, half]: the integer
\* whole, or whole + 0.5
NumberIsInteger(number) == ~number.half

\* generateSession(activeIntervalIds, availableKeys, count) for a count of
\* any number: the sessions it can return and whether it can throw
generateSessionOutcome(activeIntervalIds, availableKeys, count) ==
    [sessions |-> IF NumberIsInteger(count)
                  THEN generateSession(activeIntervalIds, availableKeys, count.whole)
                  ELSE {},
     mayThrow |-> \/ ~NumberIsInteger(count)
                  \/ count.whole < 1
                  \/ generateQuestionMayThrow(activeIntervalIds, availableKeys)]

\* generateAdaptiveSession(activeIntervalIds, availableKeys, count,
\* intervalStats) likewise
generateAdaptiveSessionOutcome(activeIntervalIds, availableKeys, count, intervalStats) ==
    [sessions |-> IF NumberIsInteger(count)
                  THEN generateAdaptiveSession(activeIntervalIds, availableKeys,
                                               count.whole, intervalStats)
                  ELSE {},
     mayThrow |-> \/ ~NumberIsInteger(count)
                  \/ count.whole < 1
                  \/ generateQuestionMayThrow(
                         buildWeightedPool(activeIntervalIds, intervalStats),
                         availableKeys)]

\* pickFromWeightedPool(pool), pool being <<>> (null/undefined) or <<array>>:
\* the ids it can return and whether it throws
pickFromWeightedPool(pool) ==
    IF pool = <<>> \/ Len(pool[1]) = 0
    THEN [picks |-> {}, throws |-> TRUE]
    ELSE [picks |-> Range(pool[1]), throws |-> FALSE]

\* startSession() under a config handed in by the host: the states it can
\* set (lines 620-628) ...
startSessionStatesOf(config, intervalStats) ==
    LET hasStats  == Len(intervalStats) > 0
        sessions  == IF hasStats
                     THEN generateAdaptiveSession(config.intervalIds, config.keys,
                                                  config.sessionLength, intervalStats)
                     ELSE generateSession(config.intervalIds, config.keys,
                                          config.sessionLength)
    IN  {[INITIAL_STATE EXCEPT !.questions = questions, !.phase = "answering"] :
            questions \in sessions}

\* ... and whether the generator can throw before setState is reached
startSessionMayThrow(config, intervalStats) ==
    \/ config.sessionLength < 1
    \/ IF Len(intervalStats) > 0
       THEN generateQuestionMayThrow(
                buildWeightedPool(config.intervalIds, intervalStats), config.keys)
       ELSE generateQuestionMayThrow(config.intervalIds, config.keys)

\* configs that are not valid: a count that is not positive, an empty pool,
\* a pool with an id or key the catalog does not have
InvalidConfigs ==
    { [name |-> "zeroLength",     intervalIds |-> intervalIds, keys |-> keys,
       sessionLength |-> 0],
      [name |-> "negativeLength", intervalIds |-> intervalIds, keys |-> keys,
       sessionLength |-> 0 - 1],
      [name |-> "noIntervals",    intervalIds |-> <<>>, keys |-> keys,
       sessionLength |-> sessionLength],
      [name |-> "noKeys",         intervalIds |-> intervalIds, keys |-> <<>>,
       sessionLength |-> sessionLength],
      [name |-> "unknownOnly",    intervalIds |-> <<"major_ninth">>, keys |-> keys,
       sessionLength |-> sessionLength],
      [name |-> "unknownAmongKnown", intervalIds |-> <<"root", "major_ninth">>,
       keys |-> keys, sessionLength |-> sessionLength],
      [name |-> "unknownKey",     intervalIds |-> intervalIds, keys |-> <<"H">>,
       sessionLength |-> sessionLength],
      [name |-> "unknownKeyAmongKnown", intervalIds |-> intervalIds,
       keys |-> <<"C", "H">>, sessionLength |-> sessionLength] }

----------------------------------------------------------------------------
(* phaseProgression.js *)

\* 0.8, as the fraction 4/5: an accuracy score/total is kept as a fraction
\* [num, den] and compared by cross-multiplication
PHASE_MASTERY_THRESHOLD == [num |-> 4, den |-> 5]
PHASE_MASTERY_SESSIONS  == 3
MAX_PHASE               == 10

\* a >= b for fractions with positive denominators
AtLeast(a, b) == a.num * b.den >= b.num * a.den

\* session.score / session.total, 0 when total is 0
sessionAccuracy(session) ==
    IF session.total = 0 THEN [num |-> 0, den |-> 1]
    ELSE [num |-> session.score, den |-> session.total]

\* mutant of checkPhaseUnlock: every session handed in is examined
checkPhaseUnlock_AllSessions(recentSessions, currentPhase) ==
    IF currentPhase >= MAX_PHASE THEN <<>>
    ELSE IF Len(recentSessions) < PHASE_MASTERY_SESSIONS THEN <<>>
    ELSE IF \A i \in DOMAIN recentSessions :
                AtLeast(sessionAccuracy(recentSessions[i]), PHASE_MASTERY_THRESHOLD)
         THEN <<currentPhase + 1>>
         ELSE <<>>

\* mutant of checkPhaseUnlock: no test for the last phase
checkPhaseUnlock_NoMaxPhase(recentSessions, currentPhase) ==
    IF Len(recentSessions) < PHASE_MASTERY_SESSIONS THEN <<>>
    ELSE IF \A i \in 1..PHASE_MASTERY_SESSIONS :
                AtLeast(sessionAccuracy(recentSessions[i]), PHASE_MASTERY_THRESHOLD)
         THEN <<currentPhase + 1>>
         ELSE <<>>

\* checkPhaseUnlock(recentSessions, currentPhase); null is <<>>
checkPhaseUnlock(recentSessions, currentPhase) ==
    IF currentPhase >= MAX_PHASE THEN <<>>
    ELSE IF Len(recentSessions) < PHASE_MASTERY_SESSIONS THEN <<>>
    ELSE LET window      == SubSeq(recentSessions, 1, PHASE_MASTERY_SESSIONS)
             allMastered == \A i \in DOMAIN window :
                               AtLeast(sessionAccuracy(window[i]),
                                       PHASE_MASTERY_THRESHOLD)
         IN  IF ~allMastered THEN <<>> ELSE <<currentPhase + 1>>

\* arr.filter(Boolean) on an array of found-or-undefined lookups
filterBoolean(arr) ==
    LET found == SelectSeq(arr, LAMBDA x : x # <<>>)
    IN  [i \in DOMAIN found |-> found[i][1]]

\* getActiveIntervalsForPhase(phase, customActiveIds); customActiveIds is
\* <<>> (null/undefined) or <<array of ids>>
getActiveIntervalsForPhase(phase, customActiveIds) ==
    LET phaseIntervals == getIntervalsForPhase(phase)
    IN  IF customActiveIds # <<>> /\ Len(customActiveIds[1]) > 0
        THEN LET validIds == {phaseIntervals[i].id : i \in DOMAIN phaseIntervals}
                 kept     == SelectSeq(customActiveIds[1], LAMBDA id : id \in validIds)
                 filtered == filterBoolean([i \in DOMAIN kept |-> getIntervalById(kept[i])])
             IN  IF Len(filtered) > 0 THEN filtered ELSE phaseIntervals
        ELSE phaseIntervals

----------------------------------------------------------------------------
(* useQuizSession.js: getAnswerChoices *)

\* mutant of sortBySemitones: the order handed in is kept
sortBySemitones_Unsorted(arr) == arr

RECURSIVE sortBySemitones(_)
\* arr.sort((a, b) => a.semitones - b.semitones): ascending, equal elements
\* keep their order
sortBySemitones(arr) ==
    IF arr = <<>> THEN <<>>
    ELSE LET n      == Len(arr)
             sorted == sortBySemitones(SubSeq(arr, 1, n - 1))
             x      == arr[n]
             k      == Cardinality({i \in DOMAIN sorted :
                                      sorted[i].semitones <= x.semitones})
         IN  SubSeq(sorted, 1, k) \o <<x>> \o SubSeq(sorted, k + 1, Len(sorted))

\* getAnswerChoices() for a config.intervalIds
getAnswerChoices(ids) ==
    sortBySemitones(filterBoolean([i \in DOMAIN ids |-> getIntervalById(ids[i])]))

----------------------------------------------------------------------------
(* streakUtils.js: a date is its time in ms since the epoch *)

ONE_DAY_MS == 86400000

\* mutant of toDay: the time of day is kept
toDay_TimeKept(d) == d

\* Date.UTC(year, month, day of d): midnight UTC of d's day
toDay(d) == d - (d % ONE_DAY_MS)

RECURSIVE sortDescending(_)
\* [...set].sort((a, b) => b - a)
sortDescending(set) ==
    IF set = {} THEN <<>>
    ELSE LET top == CHOOSE a \in set : \A b \in set : b <= a
         IN  <<top>> \o sortDescending(set \ {top})

RECURSIVE streakLoop(_, _, _, _)
\* the for loop of calculateStreak, from (1-based) position i on
streakLoop(uniqueDays, i, prevDay, streak) ==
    IF i > Len(uniqueDays) THEN streak
    ELSE IF prevDay - uniqueDays[i] = ONE_DAY_MS
    THEN streakLoop(uniqueDays, i + 1, uniqueDays[i], streak + 1)
    ELSE streak

\* mutant of calculateStreak: the first date handed in is taken for the most
\* recent one
calculateStreak_FirstIsLatest(sessionDates, now) ==
    IF Len(sessionDates) = 0 THEN 0
    ELSE LET uniqueDays == sortDescending({toDay(sessionDates[i]) : i \in DOMAIN sessionDates})
             today      == toDay(now)
             yesterday  == today - ONE_DAY_MS
             first      == toDay(sessionDates[1])
         IN  IF first # today /\ first # yesterday THEN 0
             ELSE streakLoop(uniqueDays, 2, uniqueDays[1], 1)

\* calculateStreak(sessionDates), with new Date() made the parameter now
calculateStreak(sessionDates, now) ==
    IF Len(sessionDates) = 0 THEN 0
    ELSE LET uniqueDays == sortDescending({toDay(sessionDates[i]) : i \in DOMAIN sessionDates})
             today      == toDay(now)
             yesterday  == today - ONE_DAY_MS
         IN  IF uniqueDays[1] # today /\ uniqueDays[1] # yesterday THEN 0
             ELSE streakLoop(uniqueDays, 2, uniqueDays[1], 1)

----------------------------------------------------------------------------
(* The persistent store (settingsStore.js, sessionStore.js) and the host    *)
(* code that writes currentPhase.  host.sessions is the store's sessions    *)
(* newest first, cut to the MaxStored newest; host.persist is the position  *)
(* of SummaryScreen's persist(), of which one runs per finished session     *)
(* (savedRef); host.lastWrite records the last write of currentPhase.       *)

\* getSetting(key, defaultValue) on the stored value of the key
getSetting(stored, defaultValue) ==
    IF stored = <<>> THEN defaultValue ELSE stored[1]

\* getRecentSessions(n): the n newest sessions, newest first
getRecentSessions(sessions, n) ==
    SubSeq(sessions, 1, IF n <= Len(sessions) THEN n ELSE Len(sessions))

\* db.add('sessions', ...): the store after saveSession
saveSession(sessions, sessionData) ==
    LET all == <<sessionData>> \o sessions
    IN  SubSeq(all, 1, IF MaxStored <= Len(all) THEN MaxStored ELSE Len(all))

\* SettingsScreen before its load effect: the React state as useState sets
\* it, and the 'activeIntervalIds' setting with nothing stored
INITIAL_SETTINGS ==
    [loading            |-> TRUE,
     activeIntervalIds  |-> <<>>,
     availableIntervals |-> <<>>,
     stored             |-> <<>>,     \* the stored setting: <<>> or <<value>>
     writes             |-> <<>>,     \* saveSetting calls under way, oldest first
     toggles            |-> 0,        \* history: handleIntervalToggle calls
     lastToggle         |-> <<>>,     \* history: the id of the last call
     savedBy            |-> "none"]   \* history: who stored the setting last

INITIAL_HOST ==
    [currentPhase |-> <<>>,
     settings     |-> INITIAL_SETTINGS,
     sessions     |-> <<>>,
     persist      |-> [pc |-> "idle", newPhase |-> <<>>],
     lastWrite    |-> [op |-> "none", from |-> <<>>],
     sinceUnlock  |-> <<>>]   \* history: sessions saved since the last unlock
                              \* (counted up to PHASE_MASTERY_SESSIONS), <<>>
                              \* while there was none

----------------------------------------------------------------------------
(* Actions: one per public operation of the hook, plus the microtask step *)

\* no pure function has been called
NoCall == [fn |-> "none", args |-> <<>>, done |-> FALSE, result |-> <<>>]

\* SummaryScreen before its first effect: no results delivered, the refs and
\* state as useRef/useState set them, an empty store, no request under way
INITIAL_SUMMARY ==
    [state             |-> <<>>,      \* location.state: <<>> or <<results>>
     savedRef          |-> FALSE,
     pendingSessionRef |-> <<>>,
     storageFullOpen   |-> FALSE,
     effectRuns        |-> 0,         \* history: invocations of the persist effect
     clicks            |-> 0,         \* history: clicks on "Clear History"
     sessions          |-> <<>>,      \* the 'sessions' object store
     requests          |-> <<>>,      \* store requests under way, oldest first
     adds              |-> 0,         \* history: records added for this session
     intervalStats     |-> [id \in {"root", "perfect_fifth"} |-> <<>>],
                                      \* the 'intervalStats' object store
     statsBefore       |-> [id \in {"root", "perfect_fifth"} |-> <<>>],
                                      \* history: the store as the screen found it
     statCalls         |-> 0,         \* history: updateIntervalStat calls made
     statsLeft         |-> 0,         \* updateIntervalStat calls not yet settled
     statsDone         |-> FALSE,     \* history: the Promise.all of step 2 resolved
     unlockChecks      |-> 0]         \* history: runs of checkPhaseUnlock

\* audioEngine.js lines 47-50, with no init() call made and no note triggered
INITIAL_ENGINE ==
    [sampler   |-> 0,                 \* _sampler: 0 (null) or the sampler's number
     ready     |-> FALSE,             \* _ready
     error     |-> <<>>,              \* _error
     mode      |-> "sequential",      \* _mode
     inits     |-> <<>>,              \* init() calls: settled, outcome, sampler
     plays     |-> 0,                 \* history: calls of the play functions
     triggered |-> 0,                 \* history: triggerAttackRelease calls
     threw     |-> FALSE]             \* history: the last play call threw

MarkStale(tasks) == [i \in DOMAIN tasks |-> [tasks[i] EXCEPT !.stale = TRUE]]

\* the host may make a call while fewer than MaxBatch callbacks are pending
HostMayCall == Len(microtasks) < MaxBatch

Init ==
    /\ state = INITIAL_STATE
    /\ microtasks = <<>>
    /\ audioCalls = <<>>
    /\ doneCalls = <<>>
    /\ completions = 0
    /\ attempts = <<>>
    /\ lastCall = [op |-> "init", arg |-> <<>>]
    /\ submitCalls = 0
    /\ pure = NoCall
    /\ host = INITIAL_HOST
    /\ summary = INITIAL_SUMMARY
    /\ engine = INITIAL_ENGINE

StartSession ==
    /\ HostMayCall
    /\ \E intervalStats \in IntervalStatsChoices :
         \E s \in startSessionStates(intervalStats) :
            /\ state' = s
            /\ audioCalls' = play(At(s.questions, 0))
    /\ microtasks' = MarkStale(microtasks)
    /\ doneCalls' = <<>>
    /\ completions' = 0
    /\ attempts' = <<>>
    /\ lastCall' = [op |-> "startSession", arg |-> <<>>]

PlayCurrentQuestion ==
    /\ HostMayCall
    /\ state' = state
    /\ audioCalls' = play(At(state.questions, state.currentIndex))
    /\ doneCalls' = <<>>
    /\ lastCall' = [op |-> "playCurrentQuestion", arg |-> <<>>]
    /\ UNCHANGED <<microtasks, completions, attempts>>

SubmitAnswer(answeredIntervalId) ==
    LET r == submitAnswerUpdater(state, answeredIntervalId)
    IN  /\ HostMayCall
        /\ state' = r.state
        /\ microtasks' = microtasks \o r.tasks
        /\ audioCalls' = <<>>
        /\ doneCalls' = <<>>
        /\ attempts' = IF At(state.questions, state.currentIndex) = <<>> THEN attempts
                       ELSE IF r.state.currentIndex # state.currentIndex THEN <<>>
                       ELSE Append(attempts, answeredIntervalId)
        /\ lastCall' = [op |-> "submitAnswer", arg |-> <<answeredIntervalId>>]
        /\ UNCHANGED completions

AdvanceToNext ==
    LET r == advanceToNextUpdater(state)
    IN  /\ HostMayCall
        /\ state.currentIndex < Len(state.questions) + MaxOvershoot
        /\ state' = r.state
        /\ microtasks' = microtasks \o r.tasks
        /\ audioCalls' = <<>>
        /\ doneCalls' = <<>>
        /\ attempts' = <<>>
        /\ lastCall' = [op |-> "advanceToNext", arg |-> <<>>]
        /\ UNCHANGED completions

\* the JS runtime runs the oldest pending callback
RunMicrotask ==
    /\ microtasks # <<>>
    /\ LET t == Head(microtasks)
       IN  /\ audioCalls' = IF t.kind = "play" THEN play(t.question) ELSE <<>>
           /\ doneCalls' = IF t.kind = "done" THEN t.payload ELSE <<>>
           /\ completions' = IF t.kind = "done" /\ ~t.stale
                             THEN completions + 1 ELSE completions
    /\ microtasks' = Tail(microtasks)
    /\ lastCall' = [op |-> "microtask", arg |-> <<>>]
    /\ UNCHANGED <<state, attempts>>

Next ==
    \/ StartSession /\ UNCHANGED <<submitCalls, pure, host, summary, engine>>
    \/ PlayCurrentQuestion /\ UNCHANGED <<submitCalls, pure, host, summary, engine>>
    \/ \E id \in Range(intervalIds) :
          SubmitAnswer(id) /\ UNCHANGED <<submitCalls, pure, host, summary, engine>>
    \/ AdvanceToNext /\ UNCHANGED <<submitCalls, pure, host, summary, engine>>
    \/ RunMicrotask /\ UNCHANGED <<submitCalls, pure, host, summary, engine>>

Spec == Init /\ [][Next]_vars

----------------------------------------------------------------------------
(* The hook under a host that may also hand in an invalid config *)

\* startSession() with a config of InvalidConfigs, where the generator
\* throws before setState is reached: nothing is written, nothing is played
StartSessionThrows ==
    /\ HostMayCall
    /\ \E config \in InvalidConfigs, intervalStats \in IntervalStatsChoices :
         /\ startSessionMayThrow(config, intervalStats)
         /\ lastCall' = [op |-> "startSessionInvalid", arg |-> <<config.name>>]
    /\ audioCalls' = <<>>
    /\ doneCalls' = <<>>
    /\ UNCHANGED <<state, microtasks, completions, attempts>>

\* startSession() with a config of InvalidConfigs, where no draw hits the
\* unknown id or key: the call goes through as in StartSession
StartSessionSlipsThrough ==
    /\ HostMayCall
    /\ \E config \in InvalidConfigs, intervalStats \in IntervalStatsChoices :
         /\ lastCall' = [op |-> "startSessionInvalid", arg |-> <<config.name>>]
         /\ \E s \in startSessionStatesOf(config, intervalStats) :
               /\ state' = s
               /\ audioCalls' = play(At(s.questions, 0))
    /\ microtasks' = MarkStale(microtasks)
    /\ doneCalls' = <<>>
    /\ completions' = 0
    /\ attempts' = <<>>

StartSessionInvalid ==
    \/ StartSessionThrows /\ UNCHANGED <<submitCalls, pure, host, summary, engine>>
    \/ StartSessionSlipsThrough /\ UNCHANGED <<submitCalls, pure, host, summary, engine>>

NextInvalid ==
    \/ Next
    \/ StartSessionInvalid

SpecInvalid == Init /\ [][NextInvalid]_vars

----------------------------------------------------------------------------
(* A run answered correctly at the first attempt: the host starts a        *)
(* session (a start with an invalid config throws and changes nothing),    *)
(* replays questions, and answers each question with its own interval id.   *)

StartCounted ==
    /\ StartSession
    /\ submitCalls' = 0
    /\ UNCHANGED <<pure, host, summary, engine>>

StartRefused ==
    /\ StartSessionThrows
    /\ UNCHANGED <<submitCalls, pure, host, summary, engine>>

PlayAgain ==
    /\ PlayCurrentQuestion
    /\ UNCHANGED <<submitCalls, pure, host, summary, engine>>

SubmitCorrect ==
    /\ state.phase = "answering"
    /\ At(state.questions, state.currentIndex) # <<>>
    /\ SubmitAnswer(At(state.questions, state.currentIndex)[1].intervalId)
    /\ submitCalls' = submitCalls + 1
    /\ UNCHANGED <<pure, host, summary, engine>>

Drain ==
    /\ RunMicrotask
    /\ UNCHANGED <<submitCalls, pure, host, summary, engine>>

NextFirstTry ==
    \/ StartCounted
    \/ StartRefused
    \/ PlayAgain
    \/ SubmitCorrect
    \/ Drain

SpecFirstTry == Init /\ [][NextFirstTry]_vars

----------------------------------------------------------------------------
(* The pure functions, each applied to inputs drawn from bounded sets *)

\* score/total of a stored session: 80%, 100%, 60%, and an empty session
SessionKinds ==
    { [score |-> 4, total |-> 5], [score |-> 5, total |-> 5],
      [score |-> 3, total |-> 5], [score |-> 0, total |-> 0] }

SeqsUpTo(set, n) == UNION {[1..k -> set] : k \in 0..n}

\* a call that has its arguments and has not run yet
Pending(fn, args) == [fn |-> fn, args |-> args, done |-> FALSE, result |-> <<>>]

\* ids a stored activeIntervalIds setting may hold: of phase 1, of phase 2,
\* and one the catalog does not have
CustomIdChoices == {"root", "perfect_fifth", "tritone", "major_ninth"}

\* times of day: midnight and the last millisecond of the day
TimesOfDay == {0, ONE_DAY_MS - 1}

Stamps(days) == {day * ONE_DAY_MS + t : day \in days, t \in TimesOfDay}

\* ids an active pool may hold
PoolIdChoices == {"root", "perfect_fifth", "tritone"}

\* the intervalStats handed in, after `intervalStats ?? []`: none; the stats
\* of the adaptive test; a stat without accuracy and one of an id that is
\* not active; two stats of one id
StatsChoices ==
    { <<>>,
      <<[intervalId |-> "root",          accuracy |-> <<90>>],
        [intervalId |-> "perfect_fifth", accuracy |-> <<40>>]>>,
      <<[intervalId |-> "root",          accuracy |-> <<>>],
        [intervalId |-> "major_third",   accuracy |-> <<60>>]>>,
      <<[intervalId |-> "tritone",       accuracy |-> <<90>>],
        [intervalId |-> "tritone",       accuracy |-> <<60>>]>> }

\* ids handed to the session generators: two of the catalog and one the
\* catalog does not have
GeneratorIdChoices == {"root", "perfect_fifth", "major_ninth"}

\* key pools handed to the session generators
KeyPoolChoices == {<<>>, <<"C">>, <<"C", "A">>, <<"C", "H">>, <<"H">>}

\* counts handed to the session generators: -1, -0.5, 0, 0.5, .. MaxCount + 0.5
CountChoices == {[whole |-> w, half |-> h] : w \in (0 - 1)..MaxCount, h \in BOOLEAN}

\* key names handed to getRootFrequency
KeyNameChoices ==
    {"C", "C#", "D", "D#", "E", "F", "F#", "G", "G#", "A", "A#", "B", "H", "C4", ""}

\* an accuracy: none (null/undefined), or 0% .. 100%
Accuracies == {<<>>} \cup {<<percent>> : percent \in 0..100}

\* the calls checked: every function with every input of the bounded sets
InputsDrawn ==
    \/ \E recentSessions \in SeqsUpTo(SessionKinds, MaxSessions),
          currentPhase \in 0..(MAX_PHASE + 1) :
         pure = Pending("checkPhaseUnlock",
                        [recentSessions |-> recentSessions,
                         currentPhase   |-> currentPhase])
    \/ \E phase \in 0..MAX_PHASE,
          customActiveIds \in {<<>>} \cup
              {<<ids>> : ids \in SeqsUpTo(CustomIdChoices, MaxCustomIds)} :
         pure = Pending("getActiveIntervalsForPhase",
                        [phase |-> phase, customActiveIds |-> customActiveIds])
    \/ \E sessionDates \in SeqsUpTo(Stamps(0..MaxDay), MaxStamps),
          now \in Stamps({MaxDay - 1, MaxDay}) :
         pure = Pending("calculateStreak",
                        [sessionDates |-> sessionDates, now |-> now])
    \/ \E accuracy \in Accuracies :
         pure = Pending("getWeight", [accuracy |-> accuracy])
    \/ \E activeIntervalIds \in SeqsUpTo(PoolIdChoices, MaxActiveIds),
          intervalStats \in StatsChoices :
         pure = Pending("buildWeightedPool",
                        [activeIntervalIds |-> activeIntervalIds,
                         intervalStats     |-> intervalStats])
    \/ \E ids \in SeqsUpTo(CustomIdChoices, MaxCustomIds) :
         pure = Pending("getAnswerChoices", [intervalIds |-> ids])
    \/ \E activeIntervalIds \in SeqsUpTo(GeneratorIdChoices, MaxActiveIds),
          availableKeys \in KeyPoolChoices, count \in CountChoices :
         pure = Pending("generateSession",
                        [activeIntervalIds |-> activeIntervalIds,
                         availableKeys     |-> availableKeys,
                         count             |-> count,
                         intervalStats     |-> <<>>])
    \/ \E activeIntervalIds \in SeqsUpTo(GeneratorIdChoices, MaxActiveIds),
          availableKeys \in KeyPoolChoices, count \in CountChoices,
          intervalStats \in IntervalStatsChoices :
         pure = Pending("generateAdaptiveSession",
                        [activeIntervalIds |-> activeIntervalIds,
                         availableKeys     |-> availableKeys,
                         count             |-> count,
                         intervalStats     |-> intervalStats])
    \/ \E pool \in {<<>>} \cup {<<ids>> : ids \in SeqsUpTo(PoolIdChoices, MaxActiveIds)} :
         pure = Pending("pickFromWeightedPool", [pool |-> pool])
    \/ \E keyName \in KeyNameChoices :
         pure = Pending("getRootFrequency", [keyName |-> keyName])
    \/ \E keyName \in KeyNameChoices \ {"H", "C4", ""},
          semitones \in (0 - 2)..12 :
         pure = Pending("getIntervalFrequency",
                        [rootHz    |-> getRootFrequency(keyName)[1],
                         semitones |-> semitones])
    \/ \E phase \in (0 - 1)..(MAX_PHASE + 1) :
         pure = Pending("getIntervalsForPhase", [phase |-> phase])

InitPure ==
    /\ state = INITIAL_STATE
    /\ microtasks = <<>>
    /\ audioCalls = <<>>
    /\ doneCalls = <<>>
    /\ completions = 0
    /\ attempts = <<>>
    /\ lastCall = [op |-> "init", arg |-> <<>>]
    /\ submitCalls = 0
    /\ host = INITIAL_HOST
    /\ summary = INITIAL_SUMMARY
    /\ engine = INITIAL_ENGINE
    /\ InputsDrawn

\* the pending call runs
Return(result) ==
    /\ ~pure.done
    /\ pure' = [pure EXCEPT !.done = TRUE, !.result = result]
    /\ UNCHANGED <<hookVars, submitCalls, host, summary, engine>>

CallCheckPhaseUnlock ==
    /\ pure.fn = "checkPhaseUnlock"
    /\ Return(checkPhaseUnlock(pure.args.recentSessions, pure.args.currentPhase))

CallGetActiveIntervalsForPhase ==
    /\ pure.fn = "getActiveIntervalsForPhase"
    /\ Return(getActiveIntervalsForPhase(pure.args.phase, pure.args.customActiveIds))

CallCalculateStreak ==
    /\ pure.fn = "calculateStreak"
    /\ Return(calculateStreak(pure.args.sessionDates, pure.args.now))

CallGetWeight ==
    /\ pure.fn = "getWeight"
    /\ Return(getWeight(pure.args.accuracy))

CallBuildWeightedPool ==
    /\ pure.fn = "buildWeightedPool"
    /\ Return(buildWeightedPool(pure.args.activeIntervalIds, pure.args.intervalStats))

CallGetAnswerChoices ==
    /\ pure.fn = "getAnswerChoices"
    /\ Return(getAnswerChoices(pure.args.intervalIds))

CallGenerateSession ==
    /\ pure.fn = "generateSession"
    /\ Return(generateSessionOutcome(pure.args.activeIntervalIds,
                                     pure.args.availableKeys, pure.args.count))

CallGenerateAdaptiveSession ==
    /\ pure.fn = "generateAdaptiveSession"
    /\ Return(generateAdaptiveSessionOutcome(pure.args.activeIntervalIds,
                                             pure.args.availableKeys, pure.args.count,
                                             pure.args.intervalStats))

CallPickFromWeightedPool ==
    /\ pure.fn = "pickFromWeightedPool"
    /\ Return(pickFromWeightedPool(pure.args.pool))

CallGetRootFrequency ==
    /\ pure.fn = "getRootFrequency"
    /\ Return(getRootFrequency(pure.args.keyName))

CallGetIntervalFrequency ==
    /\ pure.fn = "getIntervalFrequency"
    /\ Return(getIntervalFrequency(pure.args.rootHz, pure.args.semitones))

CallGetIntervalsForPhase ==
    /\ pure.fn = "getIntervalsForPhase"
    /\ Return(getIntervalsForPhase(pure.args.phase))

NextPure ==
    \/ CallCheckPhaseUnlock
    \/ CallGetActiveIntervalsForPhase
    \/ CallCalculateStreak
    \/ CallGetWeight
    \/ CallGetIntervalsForPhase
    \/ CallBuildWeightedPool
    \/ CallGetAnswerChoices
    \/ CallGenerateSession
    \/ CallGenerateAdaptiveSession
    \/ CallPickFromWeightedPool
    \/ CallGetRootFrequency
    \/ CallGetIntervalFrequency

SpecPure == InitPure /\ [][NextPure]_vars

----------------------------------------------------------------------------
(* The host code that writes the persisted currentPhase *)

\* the sessions a finished quiz may hand to SummaryScreen: 80% and 60%
HostSessionKinds == {[score |-> 4, total |-> 5], [score |-> 3, total |-> 5]}

\* persist(), step 1 (SummaryScreen.jsx lines 122-136): the session record
\* is saved
PersistSaveSession ==
    /\ host.persist.pc = "idle"
    /\ \E sessionData \in HostSessionKinds :
         host' = [host EXCEPT !.sessions = saveSession(host.sessions, sessionData),
                              !.persist  = [pc |-> "saved", newPhase |-> <<>>],
                              !.sinceUnlock =
                                  IF @ = <<>> \/ @[1] >= PHASE_MASTERY_SESSIONS THEN @
                                  ELSE <<@[1] + 1>>]
    /\ UNCHANGED <<hookVars, submitCalls, pure, summary, engine>>

\* persist(), step 3 (lines 146-151): the recent sessions and the current
\* phase are read and checkPhaseUnlock decides
PersistCheckUnlock ==
    /\ host.persist.pc = "saved"
    /\ LET recentSessions == getRecentSessions(host.sessions, PHASE_MASTERY_SESSIONS)
           currentPhase   == getSetting(host.currentPhase, 1)
           newPhase       == checkPhaseUnlock(recentSessions, currentPhase)
       IN  host' = [host EXCEPT !.persist =
                        IF newPhase = <<>> THEN [pc |-> "idle", newPhase |-> <<>>]
                        ELSE [pc |-> "unlocking", newPhase |-> newPhase]]
    /\ UNCHANGED <<hookVars, submitCalls, pure, summary, engine>>

\* persist(), lines 152-156: saveSetting('currentPhase', newPhase)
PersistWriteUnlock ==
    /\ host.persist.pc = "unlocking"
    /\ host' = [host EXCEPT !.currentPhase = host.persist.newPhase,
                            !.persist      = [pc |-> "idle", newPhase |-> <<>>],
                            !.lastWrite    = [op |-> "unlock", from |-> host.currentPhase],
                            !.sinceUnlock  = <<0>>]
    /\ UNCHANGED <<hookVars, submitCalls, pure, summary, engine>>

\* SettingsScreen's handleConfirmReset: sessions cleared, currentPhase 1,
\* activeIntervalIds null
handleConfirmReset ==
    /\ host' = [host EXCEPT !.currentPhase = <<1>>,
                            !.settings.stored  = <<[isArray |-> FALSE, ids |-> <<>>]>>,
                            !.settings.savedBy = "reset",
                            !.sessions     = <<>>,
                            !.lastWrite    = [op |-> "reset", from |-> host.currentPhase],
                            !.sinceUnlock  = <<>>]
    /\ UNCHANGED <<hookVars, submitCalls, pure, summary, engine>>

NextHost ==
    \/ PersistSaveSession
    \/ PersistCheckUnlock
    \/ PersistWriteUnlock
    \/ handleConfirmReset

SpecHost == Init /\ [][NextHost]_vars

----------------------------------------------------------------------------
(* SettingsScreen: the load effect and handleIntervalToggle over the        *)
(* 'activeIntervalIds' setting.  A stored value is [isArray, ids]: null is  *)
(* [isArray |-> FALSE, ids |-> <<>>].  saveSetting calls settle in the      *)
(* order they were made.                                                    *)

\* arr.includes(x)
includes(arr, x) == \E i \in DOMAIN arr : arr[i] = x

\* an array as a stored value
ArrayValue(ids) == [isArray |-> TRUE, ids |-> ids]

\* what the settings store can hold under 'activeIntervalIds' when the
\* screen opens: nothing, null, or an array, with or without 'root'
StoredActiveIdsChoices ==
    {<<>>, <<[isArray |-> FALSE, ids |-> <<>>]>>}
       \cup {<<ArrayValue(ids)>> :
                ids \in {<<>>, <<"root">>, <<"perfect_fifth">>,
                         <<"root", "perfect_fifth">>,
                         <<"perfect_fifth", "perfect_fourth">>}}

\* the phases the store can hold when the screen opens
StoredPhaseChoices == {<<>>, <<1>>, <<2>>}

\* mutant of withRoot: the toggled list as it is
withRoot_AsToggled(prev, intervalId) ==
    IF includes(prev, intervalId)
    THEN SelectSeq(prev, LAMBDA id : id # intervalId)
    ELSE Append(prev, intervalId)

\* the updater of handleIntervalToggle (lines 126-133): the id is removed
\* from or appended to the list, and 'root' put in front when missing
withRoot(prev, intervalId) ==
    LET next == IF includes(prev, intervalId)
                THEN SelectSeq(prev, LAMBDA id : id # intervalId)
                ELSE Append(prev, intervalId)
    IN  IF includes(next, "root") THEN next ELSE <<"root">> \o next

InitSettings ==
    /\ state = INITIAL_STATE
    /\ microtasks = <<>>
    /\ audioCalls = <<>>
    /\ doneCalls = <<>>
    /\ completions = 0
    /\ attempts = <<>>
    /\ lastCall = [op |-> "init", arg |-> <<>>]
    /\ submitCalls = 0
    /\ pure = NoCall
    /\ summary = INITIAL_SUMMARY
    /\ engine = INITIAL_ENGINE
    /\ \E phase \in StoredPhaseChoices, stored \in StoredActiveIdsChoices :
         host = [INITIAL_HOST EXCEPT !.currentPhase = phase,
                                     !.settings.stored = stored]

\* the "Load settings on mount" effect (lines 54-98) once its reads have
\* settled: the intervals of the phase, and the stored list or, with none
\* stored, all of them; a failed read is caught and leaves the lists empty
SettingsLoad ==
    /\ host.settings.loading
    /\ \E loaded \in BOOLEAN :
         LET activeIds == getSetting(host.settings.stored,
                                     [isArray |-> FALSE, ids |-> <<>>])
             available == getIntervalsForPhase(getSetting(host.currentPhase, 1))
             allIds    == [i \in DOMAIN available |-> available[i].id]
             resolved  == IF activeIds.isArray /\ Len(activeIds.ids) > 0
                          THEN activeIds.ids ELSE allIds
         IN  host' =
                IF loaded
                THEN [host EXCEPT !.settings.loading            = FALSE,
                                  !.settings.availableIntervals = allIds,
                                  !.settings.activeIntervalIds  = resolved]
                ELSE [host EXCEPT !.settings.loading = FALSE]
    /\ UNCHANGED <<hookVars, submitCalls, pure, summary, engine>>

\* handleIntervalToggle(intervalId) (lines 121-135) for the checkbox of one
\* of the rendered intervals: nothing for 'root'; otherwise the updater sets
\* the list and calls saveSetting with it
handleIntervalToggle ==
    /\ ~host.settings.loading
    /\ host.settings.toggles < MaxToggles
    /\ \E i \in DOMAIN host.settings.availableIntervals :
         LET intervalId == host.settings.availableIntervals[i]
             next       == withRoot(host.settings.activeIntervalIds, intervalId)
         IN  host' =
                IF intervalId = "root"
                THEN [host EXCEPT !.settings.toggles    = @ + 1,
                                  !.settings.lastToggle = <<intervalId>>]
                ELSE [host EXCEPT !.settings.toggles           = @ + 1,
                                  !.settings.lastToggle        = <<intervalId>>,
                                  !.settings.activeIntervalIds = next,
                                  !.settings.writes            = Append(@, next)]
    /\ UNCHANGED <<hookVars, submitCalls, pure, summary, engine>>

\* db.put of the oldest saveSetting('activeIntervalIds', withRoot) call
\* settles (settingsStore.js lines 16-19): the value is stored, or the put
\* fails and the store keeps what it had
SaveSettingSettles ==
    /\ host.settings.writes # <<>>
    /\ \E stored \in BOOLEAN :
         host' =
            IF stored
            THEN [host EXCEPT !.settings.stored  = <<ArrayValue(Head(host.settings.writes))>>,
                              !.settings.savedBy = "toggle",
                              !.settings.writes  = Tail(@)]
            ELSE [host EXCEPT !.settings.writes = Tail(@)]
    /\ UNCHANGED <<hookVars, submitCalls, pure, summary, engine>>

NextSettings ==
    \/ SettingsLoad
    \/ handleIntervalToggle
    \/ SaveSettingSettles

SpecSettings == InitSettings /\ [][NextSettings]_vars

----------------------------------------------------------------------------
(* SummaryScreen.jsx: the persist effect, the storage-full modal and        *)
(* handleClearHistory, over the 'sessions' store of sessionStore.js.        *)
(* Requests on the store settle in the order they were made.                *)

\* the interval ids of the delivered results
StatIds == {"root", "perfect_fifth"}

\* the results array of a completed session of SessionLength questions
ResultChoices ==
    [1..SessionLength -> [intervalId : StatIds, correct : BOOLEAN]]

\* the number of results for one interval
ResultsFor(results, intervalId) ==
    Cardinality({i \in 1..Len(results) : results[i].intervalId = intervalId})

\* location.state as SessionScreen builds it: the results, their number and
\* the number of correct ones
StateOf(results) ==
    [score   |-> Cardinality({i \in 1..Len(results) : results[i].correct}),
     total   |-> Len(results),
     results |-> results]

\* location.state: nothing, or the results of one completed session
SummaryStateChoices ==
    {<<>>} \cup {<<StateOf(results)>> : results \in ResultChoices}

\* a record of the 'intervalStats' store found by the screen: none, or that
\* of two earlier answers, one of them correct
StatRecordChoices ==
    {<<>>, <<[correct |-> 1, total |-> 2, accuracy |-> 50]>>}

\* updateIntervalStat, lines 24-28: the record computed from the one read
\* (accuracy in percent)
updatedStat(existing, wasCorrect) ==
    LET prev    == IF existing # <<>> THEN existing[1]
                   ELSE [correct |-> 0, total |-> 0, accuracy |-> 0]
        correct == prev.correct + (IF wasCorrect THEN 1 ELSE 0)
        total   == prev.total + 1
    IN  [correct  |-> correct,
         total    |-> total,
         accuracy |-> IF total > 0 THEN (correct * 100) \div total ELSE 0]

\* updateIntervalStat up to `await db.get`, for every result at once
\* (Promise.all over results.map, lines 139-141)
statGetRequests(results) ==
    [i \in 1..Len(results) |->
        [op |-> "get", by |-> "stat", data |-> <<results[i]>>]]

\* step 3 of persist() up to its await (lines 146-149)
unlockReadRequest == [op |-> "unlockRead", by |-> "persist", data |-> <<>>]

\* a record of an earlier session
EarlierSession == [date |-> "earlier", score |-> 1, total |-> 2]

\* persist(), lines 122-127: the record built from the delivered results
SessionDataOf(results) ==
    [date |-> "now", score |-> results.score, total |-> results.total]

\* what db.add of saveSession can do: add the record, hit the quota, or
\* fail otherwise
AddOutcomes == {"added", "quota", "failed"}

InitSummary ==
    /\ state = INITIAL_STATE
    /\ microtasks = <<>>
    /\ audioCalls = <<>>
    /\ doneCalls = <<>>
    /\ completions = 0
    /\ attempts = <<>>
    /\ lastCall = [op |-> "init", arg |-> <<>>]
    /\ submitCalls = 0
    /\ pure = NoCall
    /\ host = INITIAL_HOST
    /\ engine = INITIAL_ENGINE
    /\ \E delivered \in SummaryStateChoices,
          stored \in {<<>>, <<EarlierSession>>},
          stats \in [StatIds -> StatRecordChoices] :
         summary = [INITIAL_SUMMARY EXCEPT !.state = delivered,
                                           !.sessions = stored,
                                           !.intervalStats = stats,
                                           !.statsBefore = stats]

\* the "Persist on mount" effect (lines 113-164) up to its first await: the
\* savedRef guard, pendingSessionRef, and saveSession's db.add requested
PersistEffect ==
    /\ summary.effectRuns < MaxEffectRuns
    /\ summary' =
          IF summary.state = <<>> \/ summary.savedRef
          THEN [summary EXCEPT !.effectRuns = @ + 1]
          ELSE LET sessionData == SessionDataOf(summary.state[1])
               IN  [summary EXCEPT
                      !.effectRuns        = @ + 1,
                      !.savedRef          = TRUE,
                      !.pendingSessionRef = <<sessionData>>,
                      !.requests          = Append(@, [op |-> "add", by |-> "persist",
                                                       data |-> <<sessionData>>])]
    /\ UNCHANGED <<hookVars, submitCalls, pure, host, engine>>

\* saveSession(sessionData, onStorageFull) of persist() settles: the record
\* is added and persist() goes on to step 2, calling updateIntervalStat for
\* every result (each up to its db.get), or with no result to step 3; or the
\* quota is hit, onStorageFull opens the modal and null is returned; or
\* another error is thrown and caught by persist()
PersistSaveSettles ==
    /\ summary.requests # <<>>
    /\ Head(summary.requests).op = "add"
    /\ Head(summary.requests).by = "persist"
    /\ \E outcome \in AddOutcomes :
         summary' =
            CASE outcome = "added" ->
                   LET results == summary.state[1].results
                   IN  [summary EXCEPT
                          !.sessions  = Append(@, Head(summary.requests).data[1]),
                          !.adds      = @ + 1,
                          !.statCalls = @ + Len(results),
                          !.statsLeft = Len(results),
                          !.statsDone = (results = <<>>),
                          !.requests  =
                              IF results = <<>>
                              THEN Append(Tail(@), unlockReadRequest)
                              ELSE Tail(@) \o statGetRequests(results)]
              [] outcome = "quota" ->
                   [summary EXCEPT !.storageFullOpen = TRUE, !.requests = Tail(@)]
              [] OTHER ->
                   [summary EXCEPT !.requests = Tail(@)]
    /\ UNCHANGED <<hookVars, submitCalls, pure, host, engine>>

\* a click on "Clear History" of the open storage-full modal: handleClearHistory
\* runs up to `await clearAllSessions()`
handleClearHistory ==
    /\ summary.storageFullOpen
    /\ summary.clicks < MaxClicks
    /\ summary' = [summary EXCEPT
                      !.clicks   = @ + 1,
                      !.requests = Append(@, [op |-> "clear", by |-> "handler",
                                              data |-> <<>>])]
    /\ UNCHANGED <<hookVars, submitCalls, pure, host, engine>>

\* clearAllSessions() settles and handleClearHistory goes on (lines 101-104):
\* the modal is closed and, with a pending record, saveSession is called
\* again; a failed clear is caught
ClearSettles ==
    /\ summary.requests # <<>>
    /\ Head(summary.requests).op = "clear"
    /\ \E cleared \in BOOLEAN :
         summary' =
            IF cleared
            THEN [summary EXCEPT
                    !.sessions        = <<>>,
                    !.storageFullOpen = FALSE,
                    !.requests        =
                        IF summary.pendingSessionRef # <<>>
                        THEN Append(Tail(@), [op |-> "add", by |-> "handler",
                                              data |-> summary.pendingSessionRef])
                        ELSE Tail(@)]
            ELSE [summary EXCEPT !.requests = Tail(@)]
    /\ UNCHANGED <<hookVars, submitCalls, pure, host, engine>>

\* saveSession(pendingSessionRef.current) of handleClearHistory settles
\* (lines 104-105): the record is added and the pending record dropped, or
\* the error (the quota too: no onStorageFull is passed) is thrown and caught
RetrySaveSettles ==
    /\ summary.requests # <<>>
    /\ Head(summary.requests).op = "add"
    /\ Head(summary.requests).by = "handler"
    /\ \E outcome \in {"added", "failed"} :
         summary' =
            IF outcome = "added"
            THEN [summary EXCEPT
                    !.sessions          = Append(@, Head(summary.requests).data[1]),
                    !.adds              = @ + 1,
                    !.pendingSessionRef = <<>>,
                    !.requests          = Tail(@)]
            ELSE [summary EXCEPT !.requests = Tail(@)]
    /\ UNCHANGED <<hookVars, submitCalls, pure, host, engine>>

\* `await db.get('intervalStats', intervalId)` of one updateIntervalStat
\* call settles: the new record is computed from the one read and db.put is
\* requested (lines 22-30)
StatGetSettles ==
    /\ summary.requests # <<>>
    /\ Head(summary.requests).op = "get"
    /\ LET r        == Head(summary.requests).data[1]
           existing == summary.intervalStats[r.intervalId]
       IN  summary' = [summary EXCEPT
                         !.requests =
                             Append(Tail(@),
                                    [op |-> "put", by |-> "stat",
                                     data |-> <<[intervalId |-> r.intervalId,
                                                 record |-> updatedStat(existing, r.correct)]>>])]
    /\ UNCHANGED <<hookVars, submitCalls, pure, host, engine>>

\* `await db.put(...)` of one updateIntervalStat call settles (line 30); with
\* the last one the Promise.all resolves and persist() goes on to step 3
\* (lines 146-149)
StatPutSettles ==
    /\ summary.requests # <<>>
    /\ Head(summary.requests).op = "put"
    /\ LET w == Head(summary.requests).data[1]
       IN  summary' = [summary EXCEPT
                         !.intervalStats[w.intervalId] = <<w.record>>,
                         !.statsLeft = @ - 1,
                         !.statsDone = (summary.statsLeft = 1),
                         !.requests  = IF summary.statsLeft = 1
                                       THEN Append(Tail(@), unlockReadRequest)
                                       ELSE Tail(@)]
    /\ UNCHANGED <<hookVars, submitCalls, pure, host, engine>>

\* getRecentSessions(3) and getSetting('currentPhase', 1) settle and
\* checkPhaseUnlock is run (lines 146-151)
UnlockReadSettles ==
    /\ summary.requests # <<>>
    /\ Head(summary.requests).op = "unlockRead"
    /\ summary' = [summary EXCEPT !.unlockChecks = @ + 1, !.requests = Tail(@)]
    /\ UNCHANGED <<hookVars, submitCalls, pure, host, engine>>

\* "Dismiss" (or Escape) on the storage-full modal
DismissStorageWarning ==
    /\ summary.storageFullOpen
    /\ summary' = [summary EXCEPT !.storageFullOpen = FALSE]
    /\ UNCHANGED <<hookVars, submitCalls, pure, host, engine>>

NextSummary ==
    \/ PersistEffect
    \/ PersistSaveSettles
    \/ handleClearHistory
    \/ ClearSettles
    \/ RetrySaveSettles
    \/ StatGetSettles
    \/ StatPutSettles
    \/ UnlockReadSettles
    \/ DismissStorageWarning

SpecSummary == InitSummary /\ [][NextSummary]_vars

----------------------------------------------------------------------------
(* audioEngine.js: init() with its onload, onerror and timeout callbacks,   *)
(* and the play functions. A frequency is in whole Hz here.                 *)

\* frequencies handed to the play functions; frequencyToSamplerNote throws
\* for hz <= 0
HzChoices == {0, 440, 659}

ModeChoices == {"sequential", "sustained", "stacked", "arpeggio"}

\* fail(message) of an init() call that has not settled (lines 84-92)
fail(eng, message) == [eng EXCEPT !.error = <<message>>, !.ready = FALSE]

\* init(), lines 78-118: _error and _ready are reset; the Sampler is built
\* and starts loading, or its constructor throws and the call fails
EngineInit ==
    /\ Len(engine.inits) < MaxInits
    /\ LET reset == [engine EXCEPT !.error = <<>>, !.ready = FALSE]
           n     == Len(engine.inits) + 1
       IN  \E constructorThrows \in BOOLEAN :
             engine' =
                IF constructorThrows
                THEN [fail(reset, "Failed to initialise audio engine") EXCEPT
                        !.inits = Append(@, [settled |-> TRUE, result |-> "rejected",
                                             sampler |-> 0, samples |-> "none"])]
                ELSE [reset EXCEPT
                        !.sampler = n,
                        !.inits   = Append(@, [settled |-> FALSE, result |-> "pending",
                                               sampler |-> n, samples |-> "loading"])]
    /\ UNCHANGED <<hookVars, submitCalls, pure, host, summary>>

\* onload of the Sampler built by the i-th init() (lines 103-109)
OnLoad(i) ==
    /\ engine.inits[i].samples = "loading"
    /\ engine' =
          IF engine.inits[i].settled
          THEN [engine EXCEPT !.inits[i].samples = "loaded"]
          ELSE [engine EXCEPT !.inits[i].samples = "loaded",
                              !.inits[i].settled = TRUE,
                              !.inits[i].result  = "resolved",
                              !.ready            = TRUE]
    /\ UNCHANGED <<hookVars, submitCalls, pure, host, summary>>

\* onerror of the Sampler built by the i-th init() (lines 110-113)
OnError(i) ==
    /\ engine.inits[i].samples = "loading"
    /\ engine' =
          IF engine.inits[i].settled
          THEN [engine EXCEPT !.inits[i].samples = "failed"]
          ELSE [fail(engine, "Failed to load audio samples") EXCEPT
                              !.inits[i].samples = "failed",
                              !.inits[i].settled = TRUE,
                              !.inits[i].result  = "rejected"]
    /\ UNCHANGED <<hookVars, submitCalls, pure, host, summary>>

\* the LOAD_TIMEOUT_MS timer of the i-th init() fires (lines 95-97); it is
\* cleared once the call has settled
LoadTimeout(i) ==
    /\ ~engine.inits[i].settled
    /\ engine' = [fail(engine, "Audio failed to load") EXCEPT
                              !.inits[i].settled = TRUE,
                              !.inits[i].result  = "rejected"]
    /\ UNCHANGED <<hookVars, submitCalls, pure, host, summary>>

\* _trigger(_noteFromHz(hz), ...) for each hz in turn (lines 56-68): each
\* reaches triggerAttackRelease, whose errors are caught, until
\* frequencyToSamplerNote throws for one
triggerEach(eng, hzs) ==
    LET invalid == {i \in DOMAIN hzs : hzs[i] <= 0}
        reached == IF invalid = {} THEN Len(hzs)
                   ELSE (CHOOSE i \in invalid : \A j \in invalid : i <= j) - 1
    IN  [eng EXCEPT
           !.triggered = IF eng.sampler = 0 \/ ~eng.ready THEN @ ELSE @ + reached,
           !.threw     = invalid # {}]

\* playNote(frequency, duration), lines 130-133
playNote(eng, frequency) ==
    IF ~eng.ready THEN eng ELSE triggerEach(eng, <<frequency>>)

\* playSequential(rootHz, intervalHz), lines 135-142
playSequential(eng, rootHz, intervalHz) ==
    IF ~eng.ready THEN eng ELSE triggerEach(eng, <<rootHz, intervalHz>>)

\* playSustained(rootHz, intervalHz), lines 144-150
playSustained(eng, rootHz, intervalHz) ==
    IF ~eng.ready THEN eng ELSE triggerEach(eng, <<rootHz, intervalHz>>)

\* playStacked(rootHz, intervalHz), lines 152-161
playStacked(eng, rootHz, intervalHz) ==
    IF ~eng.ready THEN eng
    ELSE triggerEach(eng, <<rootHz, intervalHz, rootHz, intervalHz>>)

\* playInterval(rootHz, intervalHz), lines 180-187
playInterval(eng, rootHz, intervalHz) ==
    IF ~eng.ready THEN eng
    ELSE CASE eng.mode = "sequential" -> playSequential(eng, rootHz, intervalHz)
           [] eng.mode = "sustained"  -> playSustained(eng, rootHz, intervalHz)
           [] eng.mode = "stacked"    -> playStacked(eng, rootHz, intervalHz)
           [] OTHER                   -> eng

\* the engine as a play call made by the host finds it, and as it leaves it
\* (plays and threw are history)
Calling == [engine EXCEPT !.threw = FALSE]
Counted(eng) == [eng EXCEPT !.plays = @ + 1]

PlayNote ==
    /\ engine.plays < MaxPlays
    /\ \E frequency \in HzChoices :
         engine' = Counted(playNote(Calling, frequency))
    /\ UNCHANGED <<hookVars, submitCalls, pure, host, summary>>

PlaySequential ==
    /\ engine.plays < MaxPlays
    /\ \E rootHz, intervalHz \in HzChoices :
         engine' = Counted(playSequential(Calling, rootHz, intervalHz))
    /\ UNCHANGED <<hookVars, submitCalls, pure, host, summary>>

PlaySustained ==
    /\ engine.plays < MaxPlays
    /\ \E rootHz, intervalHz \in HzChoices :
         engine' = Counted(playSustained(Calling, rootHz, intervalHz))
    /\ UNCHANGED <<hookVars, submitCalls, pure, host, summary>>

PlayStacked ==
    /\ engine.plays < MaxPlays
    /\ \E rootHz, intervalHz \in HzChoices :
         engine' = Counted(playStacked(Calling, rootHz, intervalHz))
    /\ UNCHANGED <<hookVars, submitCalls, pure, host, summary>>

PlayInterval ==
    /\ engine.plays < MaxPlays
    /\ \E rootHz, intervalHz \in HzChoices :
         engine' = Counted(playInterval(Calling, rootHz, intervalHz))
    /\ UNCHANGED <<hookVars, submitCalls, pure, host, summary>>

\* setMode(mode), lines 172-178: an invalid mode throws and changes nothing
SetMode ==
    /\ \E mode \in ModeChoices :
         engine' = IF mode \in {"sequential", "sustained", "stacked"}
                   THEN [engine EXCEPT !.mode = mode]
                   ELSE engine
    /\ UNCHANGED <<hookVars, submitCalls, pure, host, summary>>

NextAudio ==
    \/ EngineInit
    \/ \E i \in DOMAIN engine.inits : OnLoad(i)
    \/ \E i \in DOMAIN engine.inits : OnError(i)
    \/ \E i \in DOMAIN engine.inits : LoadTimeout(i)
    \/ PlayNote
    \/ PlaySequential
    \/ PlaySustained
    \/ PlayStacked
    \/ PlayInterval
    \/ SetMode

SpecAudio == Init /\ [][NextAudio]_vars

----------------------------------------------------------------------------
(* A run driven by submitAnswer alone: the host starts one session and      *)
(* then only submits answers, right or wrong, until the run is complete.    *)

StartOnce ==
    /\ state.phase = "idle"
    /\ StartSession
    /\ submitCalls' = 0
    /\ UNCHANGED <<pure, host, summary, engine>>

SubmitAny ==
    /\ state.phase \in {"answering", "feedback"}
    /\ \E id \in Range(intervalIds) : SubmitAnswer(id)
    /\ submitCalls' = submitCalls + 1
    /\ UNCHANGED <<pure, host, summary, engine>>

DrainSubmit ==
    /\ RunMicrotask
    /\ UNCHANGED <<submitCalls, pure, host, summary, engine>>

NextSubmitOnly ==
    \/ StartOnce
    \/ SubmitAny
    \/ DrainSubmit

SpecSubmitOnly == Init /\ [][NextSubmitOnly]_vars

----------------------------------------------------------------------------
(* The hook called several times within one task: a call may be made while  *)
(* callbacks deferred by earlier calls of the task are still pending.       *)

HostMayCallInTask == Len(microtasks) < MaxPending

StartSessionInTask ==
    /\ HostMayCallInTask
    /\ \E intervalStats \in IntervalStatsChoices :
         \E s \in startSessionStates(intervalStats) :
            /\ state' = s
            /\ audioCalls' = play(At(s.questions, 0))
    /\ microtasks' = MarkStale(microtasks)
    /\ doneCalls' = <<>>
    /\ completions' = 0
    /\ attempts' = <<>>
    /\ lastCall' = [op |-> "startSession", arg |-> <<>>]
    /\ UNCHANGED <<submitCalls, pure, host, summary, engine>>

SubmitAnswerInTask ==
    /\ HostMayCallInTask
    /\ \E answeredIntervalId \in Range(intervalIds) :
         LET r == submitAnswerUpdater(state, answeredIntervalId)
         IN  /\ state' = r.state
             /\ microtasks' = microtasks \o r.tasks
             /\ attempts' = IF At(state.questions, state.currentIndex) = <<>>
                            THEN attempts
                            ELSE IF r.state.currentIndex # state.currentIndex THEN <<>>
                            ELSE Append(attempts, answeredIntervalId)
             /\ lastCall' = [op |-> "submitAnswer", arg |-> <<answeredIntervalId>>]
    /\ audioCalls' = <<>>
    /\ doneCalls' = <<>>
    /\ UNCHANGED <<completions, submitCalls, pure, host, summary, engine>>

AdvanceToNextInTask ==
    /\ HostMayCallInTask
    /\ state.currentIndex < Len(state.questions) + MaxOvershoot
    /\ LET r == advanceToNextUpdater(state)
       IN  /\ state' = r.state
           /\ microtasks' = microtasks \o r.tasks
    /\ audioCalls' = <<>>
    /\ doneCalls' = <<>>
    /\ attempts' = <<>>
    /\ lastCall' = [op |-> "advanceToNext", arg |-> <<>>]
    /\ UNCHANGED <<completions, submitCalls, pure, host, summary, engine>>

MicrotaskAfterTask ==
    /\ RunMicrotask
    /\ UNCHANGED <<submitCalls, pure, host, summary, engine>>

NextBatch ==
    \/ StartSessionInTask
    \/ SubmitAnswerInTask
    \/ AdvanceToNextInTask
    \/ MicrotaskAfterTask

SpecBatch == Init /\ [][NextBatch]_vars

----------------------------------------------------------------------------
(* SessionScreen.jsx driving the hook: the auto-start effect, the answer    *)
(* buttons, the replay button and the auto-advance timer. Clicks and timers *)
(* are tasks: they run when no microtask is pending (HostMayCall).          *)

\* lines 144-149: startSession is called once (sessionStarted ref); under
\* this screen the phase is idle exactly until that call
ScreenAutoStart ==
    /\ state.phase = "idle"
    /\ StartSession
    /\ UNCHANGED <<submitCalls, pure, host, summary, engine>>

\* line 167: buttonsDisabled
buttonsDisabled == state.phase = "feedback" \/ state.phase = "complete"

\* lines 289-293: a click on an enabled answer button
ClickAnswer ==
    /\ state.phase # "idle"
    /\ ~buttonsDisabled
    /\ \E id \in Range(intervalIds) : SubmitAnswer(id)
    /\ UNCHANGED <<submitCalls, pure, host, summary, engine>>

\* lines 250-252: a click on the play button
ClickPlay ==
    /\ state.phase # "idle"
    /\ PlayCurrentQuestion
    /\ UNCHANGED <<submitCalls, pure, host, summary, engine>>

\* lines 152-159: the auto-advance effect's timer fires
AutoAdvanceTimer ==
    /\ state.phase = "feedback"
    /\ state.isCorrect = <<TRUE>> \/ state.retryUsed
    /\ AdvanceToNext
    /\ UNCHANGED <<submitCalls, pure, host, summary, engine>>

ScreenMicrotask ==
    /\ RunMicrotask
    /\ UNCHANGED <<submitCalls, pure, host, summary, engine>>

NextScreen ==
    \/ ScreenAutoStart
    \/ ClickAnswer
    \/ ClickPlay
    \/ AutoAdvanceTimer
    \/ ScreenMicrotask

SpecScreen == Init /\ [][NextScreen]_vars

----------------------------------------------------------------------------
(* Vocabulary of the claims *)

Started == state.questions # <<>>

\* questions[currentIndex], <<>> when there is none
CurrentQuestion == At(state.questions, state.currentIndex)

\* onSessionComplete calls for the current run, made or still deferred
PendingDone ==
    Cardinality({i \in DOMAIN microtasks :
                    microtasks[i].kind = "done" /\ ~microtasks[i].stale})

EmittedForRun == completions + PendingDone

Min(a, b) == IF a <= b THEN a ELSE b

\* the step just taken is a submitAnswer(id) call made while a question was current
SubmitOn(id) ==
    /\ lastCall'.op = "submitAnswer"
    /\ lastCall'.arg = <<id>>
    /\ CurrentQuestion # <<>>

----------------------------------------------------------------------------
(* C1: within one run (from startSession to the next startSession) the      *)
(* completion payload is emitted exactly once: once the phase is complete,  *)
(* never before, and never again under further calls.                       *)
(* Stated for every reachable state: a started run has emitted (or has      *)
(* queued) one payload if its phase is complete and none otherwise.         *)
C1_EmittedExactlyOnce ==
    Started => EmittedForRun = (IF state.phase = "complete" THEN 1 ELSE 0)

(* C2: whenever a run reaches complete, through any interleaving of         *)
(* submitAnswer and advanceToNext, the emitted payload has                  *)
(* total = sessionLength and results.length = sessionLength.                *)
C2_PayloadCoversSession ==
    \A i \in DOMAIN doneCalls :
        doneCalls[i].questions # <<>> =>
            /\ doneCalls[i].total = sessionLength
            /\ Len(doneCalls[i].results) = sessionLength

(* C3: in every reachable state of a run, sessionResults holds exactly one  *)
(* result per question already passed, in question order.                   *)
C3_OneResultPerPassedQuestion ==
    Started =>
        /\ Len(state.sessionResults) = Min(state.currentIndex, Len(state.questions))
        /\ \A i \in DOMAIN state.sessionResults :
              /\ i \in DOMAIN state.questions
              /\ state.sessionResults[i].intervalId = state.questions[i].intervalId

(* C4: retry law. After one wrong answer on a question, the next            *)
(* submitAnswer on it appends exactly one result, {correct: true,           *)
(* usedRetry: true} if it is right and {correct: false, usedRetry: true} if *)
(* it is wrong again, and moves on by exactly one question; the first wrong *)
(* answer itself appended nothing and stayed on the question.               *)
C4_RetryLaw ==
    [][\A id \in Range(intervalIds) :
         /\ (SubmitOn(id) /\ attempts = <<>> /\ id # CurrentQuestion[1].intervalId) =>
               /\ state'.sessionResults = state.sessionResults
               /\ state'.currentIndex = state.currentIndex
               /\ attempts' = <<id>>
         /\ (SubmitOn(id) /\ Len(attempts) = 1) =>
               /\ attempts[1] # CurrentQuestion[1].intervalId
               /\ state'.sessionResults =
                     Append(state.sessionResults,
                            [intervalId |-> CurrentQuestion[1].intervalId,
                             correct    |-> (id = CurrentQuestion[1].intervalId),
                             usedRetry  |-> TRUE])
               /\ state'.currentIndex = state.currentIndex + 1
               /\ attempts' = <<>>
      ]_vars

\* a run whose first question took wrong-then-right and whose second took
\* wrong-then-wrong has just been finished by submitAnswer
C4_Witness ==
    /\ lastCall.op = "submitAnswer"
    /\ Len(state.sessionResults) = 2
    /\ state.sessionResults[1].correct /\ state.sessionResults[1].usedRetry
    /\ ~state.sessionResults[2].correct /\ state.sessionResults[2].usedRetry
    /\ state.currentIndex = 2

(* C5: a first wrong submitAnswer on a question (retryUsed false) sets      *)
(* selectedAnswer to the submitted id, isCorrect to false, retryUsed to     *)
(* true and phase to feedback, re-triggers audio exactly once for the same  *)
(* question, and leaves currentIndex, questions and sessionResults          *)
(* unchanged.                                                               *)
C5_FirstWrongAnswer ==
    [][\A id \in Range(intervalIds) :
         (SubmitOn(id) /\ ~state.retryUsed /\ id # CurrentQuestion[1].intervalId) =>
            /\ state' = [state EXCEPT !.selectedAnswer = <<id>>,
                                      !.isCorrect      = <<FALSE>>,
                                      !.retryUsed      = TRUE,
                                      !.phase          = "feedback"]
            /\ audioCalls' = <<>>
            /\ microtasks' = Append(microtasks, PlayTask(CurrentQuestion))
      ]_vars

\* a first wrong answer has just been given: feedback, replay queued
C5_Witness ==
    /\ lastCall.op = "submitAnswer"
    /\ state.phase = "feedback"
    /\ state.selectedAnswer = lastCall.arg
    /\ state.selectedAnswer # <<CurrentQuestion[1].intervalId>>
    /\ state.sessionResults = <<>>
    /\ microtasks = <<PlayTask(CurrentQuestion)>>

(* C6, as claimed: submitAnswer is accepted only in phase answering; called *)
(* in idle, feedback or complete it leaves the whole session state          *)
(* unchanged, appends no result and triggers no audio.                      *)
C6_OnlyInAnswering ==
    [][(lastCall'.op = "submitAnswer" /\ state.phase # "answering") =>
          /\ state' = state
          /\ microtasks' = microtasks
          /\ audioCalls' = <<>>
      ]_vars

(* C6, amended: submitAnswer is accepted in answering and in feedback (the  *)
(* retry is submitted while the phase is feedback, and is then resolved);   *)
(* called in idle or complete it leaves the whole session state unchanged,  *)
(* appends no result and triggers no audio.                                 *)
C6_OnlyWithCurrentQuestion ==
    [][lastCall'.op = "submitAnswer" =>
          /\ state.phase \in {"idle", "complete"} =>
                /\ state' = state
                /\ microtasks' = microtasks
                /\ audioCalls' = <<>>
          /\ state.phase = "feedback" =>
                /\ Len(state'.sessionResults) = Len(state.sessionResults) + 1
                /\ state'.currentIndex = state.currentIndex + 1
      ]_vars

\* submitAnswer has just been called on a completed run, to no effect
C6_Witness ==
    /\ lastCall.op = "submitAnswer"
    /\ state.phase = "complete"
    /\ Started
    /\ microtasks = <<>>
    /\ audioCalls = <<>>

(* C7: every phase change follows idle -> answering <-> feedback ->         *)
(* complete: idle is left only to answering (by startSession), feedback is  *)
(* entered only from answering, complete is entered only from answering or  *)
(* feedback by advancing past the last question, and only startSession      *)
(* (re)enters answering from a finished or abandoned run.                   *)
C7_PhaseGraph ==
    [][state'.phase # state.phase =>
          \/ /\ state.phase = "idle"
             /\ state'.phase = "answering"
             /\ lastCall'.op = "startSession"
          \/ /\ state.phase = "answering"
             /\ state'.phase = "feedback"
          \/ /\ state.phase = "feedback"
             /\ state'.phase = "answering"
          \/ /\ state.phase \in {"answering", "feedback"}
             /\ state'.phase = "complete"
             /\ state.currentIndex = Len(state.questions) - 1
             /\ lastCall'.op \in {"submitAnswer", "advanceToNext"}
          \/ /\ state.phase = "complete"
             /\ state'.phase = "answering"
             /\ lastCall'.op = "startSession"
      ]_vars

(* C8: complete is terminal: once the phase is complete no submitAnswer,    *)
(* advanceToNext or playCurrentQuestion call changes the phase; only a new  *)
(* startSession leaves complete.                                            *)
C8_CompleteIsTerminal ==
    [][state.phase = "complete" =>
          /\ lastCall'.op # "startSession" => state'.phase = "complete"
          /\ lastCall'.op = "startSession" => state'.phase = "answering"
      ]_vars

\* advanceToNext has just been called on a run that was already complete
C8_Witness ==
    /\ lastCall.op = "advanceToNext"
    /\ Started
    /\ state.phase = "complete"
    /\ state.currentIndex > Len(state.questions)

(* C9: a submitAnswer whose id equals the current question's intervalId     *)
(* appends {that intervalId, correct: true, usedRetry: retryUsed before the *)
(* call} and advances; on a first-try correct answer usedRetry is false.    *)
C9_CorrectAnswer ==
    [][\A id \in Range(intervalIds) :
         (SubmitOn(id) /\ id = CurrentQuestion[1].intervalId) =>
            /\ state'.sessionResults =
                  Append(state.sessionResults,
                         [intervalId |-> CurrentQuestion[1].intervalId,
                          correct    |-> TRUE,
                          usedRetry  |-> state.retryUsed])
            /\ state'.currentIndex = state.currentIndex + 1
            /\ state'.phase = IF state.currentIndex + 1 < Len(state.questions)
                              THEN "answering" ELSE "complete"
            /\ attempts = <<>> =>
                  ~state'.sessionResults[Len(state'.sessionResults)].usedRetry
            /\ attempts # <<>> =>
                  state'.sessionResults[Len(state'.sessionResults)].usedRetry
      ]_vars

\* a run answered right at once, then right after one retry
C9_Witness ==
    /\ lastCall.op = "submitAnswer"
    /\ Len(state.sessionResults) = 2
    /\ state.sessionResults[1].correct /\ ~state.sessionResults[1].usedRetry
    /\ state.sessionResults[2].correct /\ state.sessionResults[2].usedRetry

\* the step just taken resolves the current question or skips it: an
\* advanceToNext call, a correct answer, or an answer after the retry was used
AdvancingStep ==
    \/ lastCall'.op = "advanceToNext"
    \/ /\ lastCall'.op = "submitAnswer"
       /\ CurrentQuestion # <<>>
       /\ \/ lastCall'.arg = <<CurrentQuestion[1].intervalId>>
          \/ attempts # <<>>

(* C10: whenever the machine advances to a next question that exists (after *)
(* a resolved answer or via advanceToNext), currentIndex increases by       *)
(* exactly 1, phase becomes answering, selectedAnswer and isCorrect become  *)
(* null, retryUsed becomes false, and audio is triggered exactly once, for  *)
(* the new current question.                                                *)
C10_AdvanceToExistingQuestion ==
    [][(AdvancingStep /\ At(state.questions, state.currentIndex + 1) # <<>>) =>
          /\ state'.currentIndex = state.currentIndex + 1
          /\ state'.questions = state.questions
          /\ state'.phase = "answering"
          /\ state'.selectedAnswer = <<>>
          /\ state'.isCorrect = <<>>
          /\ state'.retryUsed = FALSE
          /\ audioCalls' = <<>>
          /\ microtasks' =
                Append(microtasks,
                       PlayTask(At(state'.questions, state'.currentIndex)))
      ]_vars

\* the machine has just moved from a retried question to question 1, whose
\* playback is queued
C10_Witness ==
    /\ lastCall.op = "submitAnswer"
    /\ state.phase = "answering"
    /\ state.currentIndex = 1
    /\ Len(state.sessionResults) = 1
    /\ state.sessionResults[1].usedRetry
    /\ state.retryUsed = FALSE
    /\ microtasks = <<PlayTask(<<state.questions[2]>>)>>

----------------------------------------------------------------------------
(* Vocabulary of the claims C11..C20 *)

\* the payloads of the onSessionComplete calls still deferred
DeferredPayloads ==
    {microtasks[i].payload[1] : i \in {j \in DOMAIN microtasks : microtasks[j].kind = "done"}}

\* the payloads of the onSessionComplete calls made by the last step
DeliveredPayloads == Range(doneCalls)

RECURSIVE SumOver(_, _)
\* the sum of f[x] over the x of set
SumOver(f, set) ==
    IF set = {} THEN 0
    ELSE LET x == CHOOSE y \in set : TRUE
         IN  f[x] + SumOver(f, set \ {x})

\* the results of a payload that are about the interval id
ResultsOf(results, id) == {i \in DOMAIN results : results[i].intervalId = id}

\* score, total and breakdown of a payload agree with its results
PayloadConsistent(p) ==
    LET ids == {p.results[i].intervalId : i \in DOMAIN p.results}
        b   == p.intervalBreakdown
    IN  /\ p.score = Cardinality({i \in DOMAIN p.results : p.results[i].correct})
        /\ p.total = Len(p.results)
        /\ DOMAIN b = ids
        /\ \A id \in ids :
              /\ b[id].total = Cardinality(ResultsOf(p.results, id))
              /\ b[id].correct =
                    Cardinality({i \in ResultsOf(p.results, id) : p.results[i].correct})
              /\ b[id].correct <= b[id].total
        /\ SumOver([id \in ids |-> b[id].total], ids) = p.total
        /\ SumOver([id \in ids |-> b[id].correct], ids) = p.score

\* the tasks the step just taken has added to the microtask queue
NewTasks ==
    IF Len(microtasks') > Len(microtasks)
    THEN {microtasks'[i] : i \in (Len(microtasks) + 1)..Len(microtasks')}
    ELSE {}

\* the playInterval call that plays the question
PlayedOnce(question) ==
    <<[rootHz |-> question.rootHz, intervalHz |-> question.intervalHz]>>

\* the phase the store holds, 1 while nothing is stored
StoredPhase == getSetting(host.currentPhase, 1)

----------------------------------------------------------------------------
(* C11: every recorded AnswerResult with correct:false has usedRetry:true   *)
(* (a miss is only recorded after the retry was consumed).  Stated for the  *)
(* results in the state and for those of every payload, deferred or         *)
(* delivered.                                                               *)
C11_MissUsedRetry ==
    /\ \A i \in DOMAIN state.sessionResults :
          ~state.sessionResults[i].correct => state.sessionResults[i].usedRetry
    /\ \A p \in DeferredPayloads \cup DeliveredPayloads :
          \A i \in DOMAIN p.results : ~p.results[i].correct => p.results[i].usedRetry

\* a miss has been recorded and the run goes on
C11_Witness ==
    /\ state.phase = "answering"
    /\ state.currentIndex = 1
    /\ Len(state.sessionResults) = 1
    /\ ~state.sessionResults[1].correct
    /\ state.sessionResults[1].usedRetry

(* C12: the completion payload is consistent with the results: score is the *)
(* number of correct results, total is results.length, intervalBreakdown    *)
(* has exactly the interval ids of the results with their per-interval      *)
(* counts (totals sum to total, corrects sum to score, correct <= total),   *)
(* and payload.results equals the machine's sessionResults: when the        *)
(* payload is emitted, and still when it is delivered to the run it is of.  *)
C12_PayloadConsistent ==
    [][/\ \A t \in NewTasks :
             t.kind = "done" =>
                /\ PayloadConsistent(t.payload[1])
                /\ t.payload[1].results = state'.sessionResults
                /\ state'.phase = "complete"
       /\ (lastCall'.op = "microtask" /\ doneCalls' # <<>>) =>
             /\ PayloadConsistent(doneCalls'[1])
             /\ ~Head(microtasks).stale =>
                   doneCalls'[1].results = state'.sessionResults
      ]_vars

\* a payload with a miss and two interval ids has been delivered
C12_Witness ==
    /\ lastCall.op = "microtask"
    /\ doneCalls # <<>>
    /\ doneCalls[1].total = sessionLength
    /\ doneCalls[1].score = 1
    /\ Cardinality(DOMAIN doneCalls[1].intervalBreakdown) = 2
    /\ doneCalls[1].results = state.sessionResults

(* C13: a run in which every question is answered correctly on the first    *)
(* attempt completes after exactly sessionLength submitAnswer calls, with   *)
(* score = total = sessionLength, every result having usedRetry false, and  *)
(* the intervalBreakdown totals summing to sessionLength.  Stated for every *)
(* state of such a run: it is complete exactly when sessionLength answers   *)
(* were submitted, and then one payload of that content is emitted.         *)
C13_FirstTryRun ==
    Started =>
        /\ submitCalls <= sessionLength
        /\ (state.phase = "complete") <=> (submitCalls = sessionLength)
        /\ (state.phase = "complete") => EmittedForRun = 1
        /\ Len(state.sessionResults) = submitCalls
        /\ \A i \in DOMAIN state.sessionResults :
              /\ state.sessionResults[i].correct
              /\ ~state.sessionResults[i].usedRetry
        /\ \A p \in DeferredPayloads \cup DeliveredPayloads :
              /\ p.score = sessionLength
              /\ p.total = sessionLength
              /\ \A i \in DOMAIN p.results : ~p.results[i].usedRetry
              /\ SumOver([id \in DOMAIN p.intervalBreakdown |->
                             p.intervalBreakdown[id].total],
                         DOMAIN p.intervalBreakdown) = sessionLength

\* the payload of a first-try run over two interval ids has been delivered
C13_Witness ==
    /\ state.phase = "complete"
    /\ submitCalls = sessionLength
    /\ lastCall.op = "microtask"
    /\ doneCalls # <<>>
    /\ doneCalls[1].score = sessionLength
    /\ Cardinality(DOMAIN doneCalls[1].intervalBreakdown) = 2

C15_InvalidStartFails ==
    [][lastCall'.op = "startSessionInvalid" =>
          /\ state' = state
          /\ audioCalls' = <<>>
          /\ microtasks' = microtasks
      ]_vars

(* C16: playCurrentQuestion changes no field of the session state in any    *)
(* phase, and triggers audio exactly once, with the frequencies of          *)
(* questions[currentIndex], whenever that question exists (so no audio in   *)
(* idle or after completion).                                               *)
C16_PlayCurrentQuestion ==
    [][lastCall'.op = "playCurrentQuestion" =>
          /\ state' = state
          /\ microtasks' = microtasks
          /\ doneCalls' = <<>>
          /\ audioCalls' = IF CurrentQuestion # <<>>
                           THEN PlayedOnce(CurrentQuestion[1])
                           ELSE <<>>
          /\ state.phase \in {"idle", "complete"} => audioCalls' = <<>>
      ]_vars

\* question 1 has been replayed while the learner is on the retry
C16_Witness ==
    /\ lastCall.op = "playCurrentQuestion"
    /\ state.phase = "feedback"
    /\ state.currentIndex = 1
    /\ CurrentQuestion # <<>>
    /\ audioCalls = PlayedOnce(CurrentQuestion[1])
    /\ audioCalls[1].rootHz # audioCalls[1].intervalHz

(* C17: checkPhaseUnlock returns phase+1 exactly when phase < 10, at least  *)
(* 3 sessions are supplied, and each of the first 3 has total > 0 and       *)
(* score/total >= 0.8; otherwise it returns null; sessions after the third  *)
(* never affect the result.                                                 *)
C17_UnlockRule ==
    (pure.fn = "checkPhaseUnlock" /\ pure.done) =>
        LET sessions    == pure.args.recentSessions
            phase       == pure.args.currentPhase
            Mastered(x) == x.total > 0 /\ 10 * x.score >= 8 * x.total
            unlock      == /\ phase < 10
                           /\ Len(sessions) >= 3
                           /\ \A i \in 1..3 : Mastered(sessions[i])
        IN  /\ pure.result = IF unlock THEN <<phase + 1>> ELSE <<>>
            /\ Len(sessions) > 3 =>
                  pure.result = checkPhaseUnlock(SubSeq(sessions, 1, 3), phase)

\* an unlock although the fourth session was below the threshold
C17_Witness ==
    /\ pure.fn = "checkPhaseUnlock"
    /\ pure.done
    /\ pure.result = <<pure.args.currentPhase + 1>>
    /\ Len(pure.args.recentSessions) = 4
    /\ pure.args.recentSessions[1] = [score |-> 4, total |-> 5]
    /\ pure.args.recentSessions[4] = [score |-> 3, total |-> 5]

(* C18, as stated: the persisted currentPhase is always an integer in       *)
(* 1..10 and never decreases, whichever host operation writes it            *)
(* (post-session unlock, reset).                                            *)
C18_PhaseNeverDecreases ==
    [][/\ StoredPhase' \in 1..10
       /\ StoredPhase' >= StoredPhase
      ]_vars

(* C18, amended: the persisted currentPhase is always an integer in 1..10;  *)
(* a post-session unlock never lowers it; only a reset lowers it, and then  *)
(* to 1.                                                                    *)
C18_PhaseLoweredOnlyByReset ==
    [][/\ StoredPhase' \in 1..10
       /\ host'.currentPhase # <<>> => host'.currentPhase[1] \in 1..10
       /\ StoredPhase' < StoredPhase =>
             /\ host'.lastWrite.op = "reset"
             /\ host'.currentPhase = <<1>>
       /\ (host'.lastWrite.op = "unlock" /\ host'.lastWrite # host.lastWrite) =>
             /\ StoredPhase' >= StoredPhase
             /\ StoredPhase' >= 2
      ]_vars

\* the learner had reached the last phase and has reset the progress
C18_Witness ==
    /\ host.lastWrite.op = "reset"
    /\ host.lastWrite.from = <<MAX_PHASE>>
    /\ host.currentPhase = <<1>>

(* C19: getActiveIntervalsForPhase(phase, customIds) returns the custom ids *)
(* that belong to the phase's catalog set, in custom order, when customIds  *)
(* is a non-empty array with at least one such id, and otherwise the full   *)
(* phase set; the result never holds an interval twice, is contained in     *)
(* getIntervalsForPhase(phase), and is non-empty for every phase >= 1.      *)
C19_ActiveIntervalsAreASet ==
    (pure.fn = "getActiveIntervalsForPhase" /\ pure.done) =>
        LET phase    == pure.args.phase
            custom   == pure.args.customActiveIds
            full     == getIntervalsForPhase(phase)
            fullIds  == {full[i].id : i \in DOMAIN full}
            wanted   == IF custom = <<>> THEN <<>>
                        ELSE SelectSeq(custom[1], LAMBDA id : id \in fullIds)
            result   == pure.result
        IN  /\ IF wanted # <<>>
               THEN /\ Len(result) = Len(wanted)
                    /\ \A i \in DOMAIN result : result[i].id = wanted[i]
               ELSE result = full
            /\ \A i, j \in DOMAIN result : result[i] = result[j] => i = j
            /\ Range(result) \subseteq Range(full)
            /\ phase >= 1 => result # <<>>

(* C20: calculateStreak returns 0 when there are no timestamps or when the  *)
(* most recent UTC day is neither today nor yesterday; otherwise it returns *)
(* the number of consecutive UTC days counted backward from the most recent *)
(* day, stopping at the first gap.                                          *)
C20_StreakRule ==
    (pure.fn = "calculateStreak" /\ pure.done) =>
        LET dates  == pure.args.sessionDates
            days   == {dates[i] \div ONE_DAY_MS : i \in DOMAIN dates}
            today  == pure.args.now \div ONE_DAY_MS
            latest == CHOOSE d \in days : \A e \in days : e <= d
        IN  pure.result =
              IF dates = <<>> THEN 0
              ELSE IF latest # today /\ latest # today - 1 THEN 0
              ELSE CHOOSE k \in 1..Cardinality(days) :
                      /\ \A j \in 0..(k - 1) : (latest - j) \in days
                      /\ (latest - k) \notin days

\* a streak of two days that began yesterday, cut off by a gap before an
\* older session
C20_Witness ==
    /\ pure.fn = "calculateStreak"
    /\ pure.done
    /\ pure.result = 2
    /\ Len(pure.args.sessionDates) = 3
    /\ pure.args.now \div ONE_DAY_MS = MaxDay
    /\ {pure.args.sessionDates[i] \div ONE_DAY_MS : i \in 1..3} = {MaxDay - 1, MaxDay - 2, 0}

----------------------------------------------------------------------------
(* Vocabulary of the claims C21..C30 *)

\* the sequences that are seq with its elements in another order
Reorderings(seq) ==
    {[i \in DOMAIN seq |-> seq[f[i]]] :
        f \in {g \in [DOMAIN seq -> DOMAIN seq] :
                  \A i, j \in DOMAIN seq : g[i] = g[j] => i = j}}

\* the UTC day numbers of a sequence of dates
DaysOf(dates) == {dates[i] \div ONE_DAY_MS : i \in DOMAIN dates}

----------------------------------------------------------------------------
(* C21: calculateStreak depends only on the set of UTC days present:        *)
(* permuting the timestamps, or adding further timestamps that fall on an   *)
(* already-present day, never changes the result.                           *)
C21_StreakOfDaySet ==
    (pure.fn = "calculateStreak" /\ pure.done) =>
        LET dates == pure.args.sessionDates
            now   == pure.args.now
        IN  /\ \A other \in Reorderings(dates) :
                  calculateStreak(other, now) = pure.result
            /\ \A t \in Stamps(DaysOf(dates)) :
                  /\ calculateStreak(Append(dates, t), now) = pure.result
                  /\ calculateStreak(<<t>> \o dates, now) = pure.result

\* a streak of two from dates handed in oldest first, with two sessions on
\* the most recent day
C21_Witness ==
    /\ pure.fn = "calculateStreak"
    /\ pure.done
    /\ pure.result = 2
    /\ Len(pure.args.sessionDates) = 3
    /\ pure.args.sessionDates[1] < pure.args.sessionDates[2]
    /\ pure.args.sessionDates[2] < pure.args.sessionDates[3]
    /\ Cardinality(DaysOf(pure.args.sessionDates)) = 2

(* C22: getWeight(accuracy) is 3 for null or undefined, 5 for accuracy      *)
(* below 0.5, 3 for 0.5 <= accuracy < 0.8 and 1 for accuracy >= 0.8; its    *)
(* result is always one of 1, 3, 5, and the boundary values 0.5 and 0.8     *)
(* fall in the lower-weight bracket.                                        *)
C22_WeightBrackets ==
    (pure.fn = "getWeight" /\ pure.done) =>
        LET accuracy == pure.args.accuracy
        IN  /\ pure.result \in {1, 3, 5}
            /\ accuracy = <<>> => pure.result = 3
            /\ accuracy # <<>> =>
                  /\ accuracy[1] < 50 => pure.result = 5
                  /\ (50 <= accuracy[1] /\ accuracy[1] < 80) => pure.result = 3
                  /\ accuracy[1] >= 80 => pure.result = 1

\* the weight of an accuracy of exactly 0.8
C22_Witness ==
    /\ pure.fn = "getWeight"
    /\ pure.done
    /\ pure.args.accuracy = <<80>>
    /\ pure.result = 1

(* C27: getIntervalsForPhase is monotone in the phase: phase 0 yields the   *)
(* empty set, for all phases p <= q the set for p is contained in the set   *)
(* for q, and phase 10 yields the whole 12-interval catalog.                *)
C27_PhaseSetsGrow ==
    (pure.fn = "getIntervalsForPhase" /\ pure.done) =>
        LET p == pure.args.phase
        IN  /\ p = 0 => pure.result = <<>>
            /\ \A q \in p..(MAX_PHASE + 1) :
                  Range(pure.result) \subseteq Range(getIntervalsForPhase(q))
            /\ p = 10 => /\ pure.result = INTERVALS
                         /\ Cardinality(Range(pure.result)) = 12

\* phase 2: the three intervals of phase 1 and the tritone
C27_Witness ==
    /\ pure.fn = "getIntervalsForPhase"
    /\ pure.done
    /\ pure.args.phase = 2
    /\ {pure.result[i].id : i \in DOMAIN pure.result} =
          {"root", "perfect_fourth", "perfect_fifth", "tritone"}

\* how often x occurs in seq
Occurrences(seq, x) == Cardinality({i \in DOMAIN seq : seq[i] = x})

\* the accuracy the stats hold for the id (the last entry of the id), none
\* when there is no entry
AccuracyIn(stats, id) ==
    LET hits == {i \in DOMAIN stats : stats[i].intervalId = id}
    IN  IF hits = {} THEN <<>>
        ELSE stats[CHOOSE i \in hits : \A j \in hits : j <= i].accuracy

(* C23, as stated: buildWeightedPool(activeIds, stats) contains each active *)
(* id exactly getWeight(its accuracy in stats, or null when absent) times   *)
(* and nothing else: its length is the sum of those weights, every active   *)
(* id occurs at least once, no inactive id occurs, and an empty activeIds   *)
(* gives an empty pool.                                                     *)
C23_EachIdWeightTimes ==
    (pure.fn = "buildWeightedPool" /\ pure.done) =>
        LET active == Range(pure.args.activeIntervalIds)
            stats  == pure.args.intervalStats
            pool   == pure.result
        IN  /\ \A id \in active :
                  Occurrences(pool, id) = getWeight(AccuracyIn(stats, id))
            /\ Range(pool) = active
            /\ Len(pool) = SumOver([id \in active |-> getWeight(AccuracyIn(stats, id))],
                                   active)
            /\ pure.args.activeIntervalIds = <<>> => pool = <<>>

(* C23, amended: the pool holds, for every entry of activeIds, the entry's  *)
(* id getWeight(its accuracy) times: an id occurs its weight times the      *)
(* number of its entries in activeIds (its weight when activeIds names it   *)
(* once), the length is the sum of the weights over the entries, every      *)
(* active id occurs, no inactive id occurs, an empty activeIds gives an     *)
(* empty pool.                                                              *)
C23_EachEntryWeightTimes ==
    (pure.fn = "buildWeightedPool" /\ pure.done) =>
        LET ids    == pure.args.activeIntervalIds
            active == Range(ids)
            stats  == pure.args.intervalStats
            pool   == pure.result
            w(id)  == CASE AccuracyIn(stats, id) = <<>> -> 3
                        [] AccuracyIn(stats, id) # <<>> /\ AccuracyIn(stats, id)[1] < 50 -> 5
                        [] AccuracyIn(stats, id) # <<>> /\ AccuracyIn(stats, id)[1] >= 50
                             /\ AccuracyIn(stats, id)[1] < 80 -> 3
                        [] OTHER -> 1
        IN  /\ \A id \in active :
                  Occurrences(pool, id) = w(id) * Occurrences(ids, id)
            /\ Range(pool) = active
            /\ Len(pool) = SumOver([i \in DOMAIN ids |-> w(ids[i])], DOMAIN ids)
            /\ ids = <<>> => pool = <<>>

\* an id named twice, mastered, next to one the learner struggles with
C23_Witness ==
    /\ pure.fn = "buildWeightedPool"
    /\ pure.done
    /\ pure.args.activeIntervalIds = <<"root", "perfect_fifth", "root">>
    /\ AccuracyIn(pure.args.intervalStats, "root") = <<90>>
    /\ Occurrences(pure.result, "root") = 2
    /\ Occurrences(pure.result, "perfect_fifth") = 5
    /\ Len(pure.result) = 7

(* C28, as stated: getAnswerChoices returns one catalog entry per           *)
(* configured interval id that exists in the catalog, in strictly ascending *)
(* semitone order regardless of the order in which the ids were supplied.   *)
C28_StrictlyAscendingChoices ==
    (pure.fn = "getAnswerChoices" /\ pure.done) =>
        LET ids    == pure.args.intervalIds
            known  == SelectSeq(ids, LAMBDA id : getIntervalById(id) # <<>>)
            result == pure.result
        IN  /\ Len(result) = Len(known)
            /\ \A id \in Range(known) :
                  Occurrences([i \in DOMAIN result |-> result[i].id], id) =
                     Occurrences(known, id)
            /\ Range(result) \subseteq Range(INTERVALS)
            /\ \A i, j \in DOMAIN result :
                  i < j => result[i].semitones < result[j].semitones

(* C28, amended: getAnswerChoices returns one catalog entry per configured  *)
(* interval id that exists in the catalog (an id configured twice gives two *)
(* equal entries), in ascending semitone order regardless of the order in   *)
(* which the ids were supplied; the order is strictly ascending when the    *)
(* configured ids are pairwise distinct.                                    *)
C28_AscendingChoices ==
    (pure.fn = "getAnswerChoices" /\ pure.done) =>
        LET ids      == pure.args.intervalIds
            known    == SelectSeq(ids, LAMBDA id : getIntervalById(id) # <<>>)
            result   == pure.result
            distinct == \A i, j \in DOMAIN ids : ids[i] = ids[j] => i = j
        IN  /\ Len(result) = Len(known)
            /\ \A id \in Range(known) :
                  Occurrences([i \in DOMAIN result |-> result[i].id], id) =
                     Occurrences(known, id)
            /\ Range(result) \subseteq Range(INTERVALS)
            /\ \A i, j \in DOMAIN result :
                  i < j => result[i].semitones <= result[j].semitones
            /\ distinct =>
                  \A i, j \in DOMAIN result :
                      i < j => result[i].semitones < result[j].semitones
            /\ \A other \in Reorderings(ids) : getAnswerChoices(other) = result

\* the fifth configured before the tritone and the root, with an id the
\* catalog does not have
C28_Witness ==
    /\ pure.fn = "getAnswerChoices"
    /\ pure.done
    /\ pure.args.intervalIds = <<"perfect_fifth", "major_ninth", "tritone">>
    /\ Len(pure.result) = 2
    /\ pure.result[1].id = "tritone"
    /\ pure.result[2].id = "perfect_fifth"

\* calls of the two session generators
GeneratorCall == pure.fn \in {"generateSession", "generateAdaptiveSession"}

\* the count handed in is a positive integer
CountIsPositiveInteger ==
    NumberIsInteger(pure.args.count) /\ pure.args.count.whole >= 1

\* the key names and interval ids the program knows
KnownKey(k) == Octave4(k) \in DOMAIN SEMITONES_FROM_A4
KnownId(id) == getIntervalById(id) # <<>>

(* C24: for a positive integer count and non-empty activeIds and keys,      *)
(* every session generateSession or generateAdaptiveSession returns has     *)
(* exactly count questions, each with intervalId in activeIds and key in    *)
(* availableKeys; and with ids of the catalog and known keys the call       *)
(* does return.                                                             *)
C24_SessionsOfCount ==
    (GeneratorCall /\ pure.done /\ CountIsPositiveInteger
        /\ pure.args.activeIntervalIds # <<>> /\ pure.args.availableKeys # <<>>) =>
        LET ids  == pure.args.activeIntervalIds
            ks   == pure.args.availableKeys
        IN  /\ \A session \in pure.result.sessions :
                  /\ Len(session) = pure.args.count.whole
                  /\ \A i \in DOMAIN session :
                        /\ session[i].intervalId \in Range(ids)
                        /\ session[i].key \in Range(ks)
            /\ ((\A id \in Range(ids) : KnownId(id)) /\ (\A k \in Range(ks) : KnownKey(k))) =>
                  /\ pure.result.sessions # {}
                  /\ ~pure.result.mayThrow

\* an adaptive session of two questions over two ids and two keys, with a
\* returnable session that uses both ids and both keys
C24_Witness ==
    /\ pure.fn = "generateAdaptiveSession"
    /\ pure.done
    /\ pure.args.count = [whole |-> 2, half |-> FALSE]
    /\ pure.args.activeIntervalIds = <<"root", "perfect_fifth">>
    /\ pure.args.availableKeys = <<"C", "A">>
    /\ pure.args.intervalStats # <<>>
    /\ \E session \in pure.result.sessions :
          /\ session[1].intervalId = "root" /\ session[1].key = "A"
          /\ session[2].intervalId = "perfect_fifth" /\ session[2].key = "C"

(* C25: generation rejects invalid input instead of returning a question:   *)
(* both generators return nothing and throw unless count is a positive      *)
(* integer, and when activeIds or keys is empty; no returned question       *)
(* names an id the catalog lacks, a pool holding such an id can throw and   *)
(* a pool of only such ids always does; pickFromWeightedPool throws on an   *)
(* empty or null pool.                                                      *)
C25_InvalidInputRejected ==
    pure.done =>
        /\ GeneratorCall =>
              LET ids == pure.args.activeIntervalIds
                  ks  == pure.args.availableKeys
                  out == pure.result
              IN  /\ ~CountIsPositiveInteger => (out.sessions = {} /\ out.mayThrow)
                  /\ (ids = <<>> \/ ks = <<>>) => (out.sessions = {} /\ out.mayThrow)
                  /\ \A session \in out.sessions : \A i \in DOMAIN session :
                        KnownId(session[i].intervalId)
                  /\ (\E id \in Range(ids) : ~KnownId(id)) => out.mayThrow
                  /\ (\A id \in Range(ids) : ~KnownId(id)) => out.sessions = {}
                  /\ out.sessions = {} => out.mayThrow
        /\ pure.fn = "pickFromWeightedPool" =>
              LET pool == pure.args.pool
              IN  IF pool = <<>> \/ pool[1] = <<>>
                  THEN pure.result.throws /\ pure.result.picks = {}
                  ELSE ~pure.result.throws /\ pure.result.picks = Range(pool[1])

\* generateSession called with count 0 over a valid pool of ids and keys
C25_Witness ==
    /\ pure.fn = "generateSession"
    /\ pure.done
    /\ pure.args.count = [whole |-> 0, half |-> FALSE]
    /\ pure.args.activeIntervalIds = <<"root", "perfect_fifth">>
    /\ pure.args.availableKeys = <<"C">>
    /\ pure.result.sessions = {}
    /\ pure.result.mayThrow

C29_SavedAtMostOnce ==
    /\ summary.adds <= 1
    /\ summary.state # <<>> =>
          Occurrences(summary.sessions, SessionDataOf(summary.state[1])) <= 1

\* the engine is not ready: no init() was called, or the last init() is
\* still loading its samples, or it failed
EngineNotReady ==
    \/ engine.inits = <<>>
    \/ engine.inits[Len(engine.inits)].result # "resolved"

(* C30: while the audio engine is not ready (before init, while samples     *)
(* are loading, or after a failed init), a call of playInterval, playNote,  *)
(* playSequential, playSustained or playStacked triggers no note and does   *)
(* not fail.                                                                *)
C30_NoNoteWhileNotReady ==
    [][(EngineNotReady /\ engine'.plays # engine.plays) =>
          (engine'.triggered = engine.triggered /\ ~engine'.threw)]_vars

(* C31: while the phase is feedback after a first wrong answer the machine  *)
(* stays on that question until the second attempt: within the run,         *)
(* currentIndex changes only through a submitAnswer call, and not through   *)
(* the SessionScreen auto-advance timer or any other operation.             *)
C31_StaysUntilSecondAttempt ==
    [][(state.phase = "feedback" /\ lastCall'.op # "startSession"
            /\ state'.currentIndex # state.currentIndex)
          => lastCall'.op = "submitAnswer"]_vars

(* C35: every playInterval call issued by the session machine carries the   *)
(* frequencies of the question at currentIndex of the active run at the     *)
(* moment the call is made, also when the deferred playback interleaves     *)
(* with later submitAnswer, advanceToNext or startSession calls.            *)
C35_AudioFollowsPosition ==
    \A i \in DOMAIN audioCalls :
        /\ CurrentQuestion # <<>>
        /\ audioCalls[i] = [rootHz     |-> CurrentQuestion[1].rootHz,
                            intervalHz |-> CurrentQuestion[1].intervalHz]

\* submissions the run can still take: two per question not yet reached,
\* one fewer when the retry of the current question is used
SubmissionsLeft(st) ==
    IF st.phase = "complete" THEN 0
    ELSE 2 * (Len(st.questions) - st.currentIndex) - (IF st.retryUsed THEN 1 ELSE 0)

(* C36: a run driven by submitAnswer alone always terminates: from          *)
(* answering at question 0 the phase is complete after at least             *)
(* sessionLength and at most 2 * sessionLength submitAnswer calls, whatever *)
(* the answers: every call uses up one or two of the submissions left,      *)
(* which start at 2 * sessionLength, and the run is complete exactly when   *)
(* none is left.                                                            *)
C36_SubmitOnlyTerminates ==
    /\ [](Started =>
            /\ submitCalls + SubmissionsLeft(state) <= 2 * sessionLength
            /\ submitCalls >= state.currentIndex
            /\ state.phase = "complete" <=> SubmissionsLeft(state) = 0
            /\ state.phase = "complete" =>
                  (sessionLength <= submitCalls /\ submitCalls <= 2 * sessionLength))
    /\ [][(Started /\ lastCall'.op = "submitAnswer") =>
            /\ SubmissionsLeft(state') < SubmissionsLeft(state)
            /\ SubmissionsLeft(state') >= SubmissionsLeft(state) - 2]_vars

\* every question answered wrong twice: complete after 2 * sessionLength calls
C36_Witness ==
    /\ state.phase = "complete"
    /\ submitCalls = 2 * sessionLength
    /\ \A i \in DOMAIN state.sessionResults : ~state.sessionResults[i].correct

C38_IndexWithinQuestions ==
    /\ 0 <= state.currentIndex
    /\ state.currentIndex <= Len(state.questions)
    /\ Started =>
          (state.phase = "complete" <=> state.currentIndex = Len(state.questions))

(* C39: in every reachable state of the audio engine isReady() is true only *)
(* if the most recent init() call loaded its samples successfully, and      *)
(* isReady() true implies getError() null; also when init() is called again *)
(* while an earlier init() is loading and when a load or error callback     *)
(* arrives after the timeout has failed that init.                          *)
C39_ReadyMeansLastInitLoaded ==
    engine.ready =>
        /\ engine.inits # <<>>
        /\ engine.inits[Len(engine.inits)].result = "resolved"
        /\ engine.inits[Len(engine.inits)].samples = "loaded"
        /\ engine.error = <<>>

(* C33: every phase unlock is earned by three mastered sessions of its own: *)
(* between two successive unlocks performed by SummaryScreen at least       *)
(* PHASE_MASTERY_SESSIONS sessions are completed.                           *)
C33_UnlockEarnedByOwnSessions ==
    [][(host.persist.pc = "unlocking" /\ host'.persist.pc = "idle"
            /\ host.sinceUnlock # <<>>)
          => host.sinceUnlock[1] >= PHASE_MASTERY_SESSIONS]_vars

(* C32: no update is lost in the per-interval statistics: once the stats    *)
(* step of a persisted session has completed, every interval's total has    *)
(* grown by the number of that session's results for it and its correct by  *)
(* the number of correct ones; a total never falls below what the screen    *)
(* found, and correct <= total in every record.                             *)
C32_NoStatUpdateLost ==
    \A id \in StatIds :
       LET before == updatedStat(summary.statsBefore[id], FALSE)
           now    == updatedStat(summary.intervalStats[id], FALSE)
       IN  /\ now.correct <= now.total
           /\ now.total >= before.total
           /\ summary.statsDone =>
                 LET results == summary.state[1].results
                 IN  /\ now.total = before.total + ResultsFor(results, id)
                     /\ now.correct = before.correct
                           + Cardinality({i \in 1..Len(results) :
                                 results[i].intervalId = id /\ results[i].correct})

(* C34: whenever a completed session's record ends up saved, on the first   *)
(* attempt or after "Clear History" in the storage-full dialog, each result *)
(* is applied to the per-interval statistics exactly once and the           *)
(* phase-unlock check is run (stated of the screen at rest: no store        *)
(* request under way).                                                      *)
C34_SavedMeansStatsAndUnlockCheck ==
    (summary.requests = <<>> /\ summary.adds >= 1) =>
        /\ summary.statCalls = Len(summary.state[1].results)
        /\ summary.statsDone
        /\ summary.unlockChecks = 1

(* C40: after any sequence of interval toggles in SettingsScreen, the       *)
(* activeIntervalIds list that is persisted contains 'root': every list a   *)
(* toggle hands to saveSetting and every list a toggle has stored is        *)
(* non-empty and contains 'root', as does the list on the screen after a    *)
(* toggle of another interval; a toggle of 'root' itself changes neither    *)
(* the screen's list nor what is stored or about to be.                     *)
C40_TogglesPersistRoot ==
    /\ [](/\ \A i \in DOMAIN host.settings.writes :
                includes(host.settings.writes[i], "root")
          /\ host.settings.savedBy = "toggle" =>
                /\ host.settings.stored # <<>>
                /\ host.settings.stored[1].isArray
                /\ includes(host.settings.stored[1].ids, "root")
          /\ (host.settings.lastToggle # <<>> /\ host.settings.lastToggle # <<"root">>) =>
                includes(host.settings.activeIntervalIds, "root"))
    /\ [][(host'.settings.toggles # host.settings.toggles
              /\ host'.settings.lastToggle = <<"root">>)
            => /\ host'.settings.activeIntervalIds = host.settings.activeIntervalIds
               /\ host'.settings.writes = host.settings.writes
               /\ host'.settings.stored = host.settings.stored]_vars

\* the learner has unticked the last interval other than the root, on a
\* screen that had loaded a list without 'root', and the list stored by
\* the toggle is the root alone
C40_Witness ==
    /\ host.settings.savedBy = "toggle"
    /\ host.settings.toggles = 1
    /\ host.settings.lastToggle = <<"perfect_fifth">>
    /\ host.settings.stored = <<ArrayValue(<<"root">>)>>
    /\ host.settings.availableIntervals # <<>>

====
